---- MODULE Spec2Model ----
(***************************************************************************)
(* Model of the eatmud transaction simulation engine: the aligned NAV      *)
(* matrix (Transaction), the day-by-day cursor (TransactionIterator) with  *)
(* its pending buffer, committed status, optional log and optional ledger  *)
(* recording, and the ledger (Record) appends it performs.                 *)
(*                                                                         *)
(* Numbers. The code computes in f64. The model computes in exact          *)
(* arithmetic: every cash and share quantity is an integer number of       *)
(* 1/Scale units, where Scale is the least common multiple of the NAVs of  *)
(* the transaction. Amounts and fees handed to inflow/buy/sell are whole   *)
(* currency units and sold shares are whole shares, so that every product  *)
(* and every quotient the code forms is exact in these units.  Rounding of *)
(* f64 is therefore outside the model.                                     *)
(*                                                                         *)
(* Dates. A NaiveDate is the number of days since 2023-01-01 (day 0).      *)
(* Strings are sequences of tokens (the empty string is << >>).            *)
(***************************************************************************)
EXTENDS Integers, Sequences, FiniteSets, Bags, TLC

(***************************************************************************)
(* chrono::NaiveDate, as far as the engine uses it.                        *)
(***************************************************************************)
EpochYear == 2023

Years == EpochYear .. (EpochYear + 3)

IsLeap(y) == (y % 4 = 0 /\ y % 100 # 0) \/ y % 400 = 0

DaysInYear(y) == IF IsLeap(y) THEN 366 ELSE 365

DaysInMonth(y, m) ==
    IF m = 2 THEN (IF IsLeap(y) THEN 29 ELSE 28)
    ELSE IF m \in {4, 6, 9, 11} THEN 30 ELSE 31

RECURSIVE DaysBeforeYear(_)
DaysBeforeYear(y) ==
    IF y <= EpochYear THEN 0 ELSE DaysBeforeYear(y - 1) + DaysInYear(y - 1)

RECURSIVE DaysBeforeMonth(_, _)
DaysBeforeMonth(y, m) ==
    IF m <= 1 THEN 0 ELSE DaysBeforeMonth(y, m - 1) + DaysInMonth(y, m - 1)

\* NaiveDate::from_ymd_opt: None for a day the month does not have.
ValidYmd(y, m, d) == m \in 1..12 /\ d >= 1 /\ d <= DaysInMonth(y, m)

\* The date of year y, month m, day d (for a valid y, m, d).
Ymd(y, m, d) == DaysBeforeYear(y) + DaysBeforeMonth(y, m) + (d - 1)

\* Datelike::year, month, day.
YearOf(date) ==
    CHOOSE y \in Years : DaysBeforeYear(y) <= date /\ date < DaysBeforeYear(y + 1)

MonthOf(date) ==
    LET y == YearOf(date)
    IN  CHOOSE m \in 1..12 :
            /\ Ymd(y, m, 1) <= date
            /\ date < Ymd(y, m, 1) + DaysInMonth(y, m)

DayOf(date) == date - Ymd(YearOf(date), MonthOf(date), 1) + 1

\* Datelike::weekday, Mon = 0 .. Sun = 6; 2023-01-01 was a Sunday.
WeekdayOf(date) == (date + 6) % 7

Weekdays == 0..6

(***************************************************************************)
(* Option<T>.                                                              *)
(***************************************************************************)
None == [is_some |-> FALSE]

Some(x) == [is_some |-> TRUE, val |-> x]

(***************************************************************************)
(* Arithmetic helpers.                                                     *)
(***************************************************************************)
Min(a, b) == IF a <= b THEN a ELSE b

RECURSIVE Gcd(_, _)
Gcd(a, b) == IF b = 0 THEN a ELSE Gcd(b, a % b)

Lcm(a, b) == (a * b) \div Gcd(a, b)

RECURSIVE SumSeq(_)
SumSeq(s) == IF s = << >> THEN 0 ELSE Head(s) + SumSeq(Tail(s))

\* The subsequence s[lo+1 .. hi] of a 1-based sequence: the slice s[lo..hi]
\* of the 0-based Rust slice.
Slice(s, lo, hi) == [i \in 1..(hi - lo) |-> s[lo + i]]

(***************************************************************************)
(* search_sorted (src/utility.rs).  a is a sequence of keys; the result is *)
(* a 0-based index.                                                        *)
(***************************************************************************)
LEFT == "LEFT"
RIGHT == "RIGHT"

\* The loop with `lo = mid` on an equal key whatever the side.
RECURSIVE search_loop_equal_right(_, _, _, _, _)
search_loop_equal_right(a, v, side, lo, hi) ==
    IF lo + 1 < hi
    THEN LET mid == (lo + hi) \div 2
             k   == a[mid + 1]
         IN  IF k > v THEN search_loop_equal_right(a, v, side, lo, mid)
             ELSE search_loop_equal_right(a, v, side, mid, hi)
    ELSE <<lo, hi>>

\* The loop `while lo + 1 < hi`, on 0-based lo, hi.
RECURSIVE search_loop(_, _, _, _, _)
search_loop(a, v, side, lo, hi) ==
    IF lo + 1 < hi
    THEN LET mid == (lo + hi) \div 2
             k   == a[mid + 1]
         IN  IF k < v THEN search_loop(a, v, side, mid, hi)
             ELSE IF k > v THEN search_loop(a, v, side, lo, mid)
             ELSE IF side = LEFT THEN search_loop(a, v, side, lo, mid)
             ELSE search_loop(a, v, side, mid, hi)
    ELSE <<lo, hi>>

search_sorted(a, v, side_opt) ==
    IF Len(a) = 0 THEN 0
    ELSE LET side == IF side_opt.is_some THEN side_opt.val ELSE LEFT
             lh   == search_loop(a, v, side, 0, Len(a) - 1)
             lo   == lh[1]
             hi   == lh[2]
             lv   == a[lo + 1]
             rv   == a[hi + 1]
         IN  IF v = lv \/ v = rv
             THEN IF side = LEFT
                  THEN (IF v = lv THEN lo ELSE hi)
                  ELSE (IF v = rv THEN lo ELSE hi)
             ELSE IF v < lv THEN lo
             ELSE IF v > rv THEN hi + 1
             ELSE hi

(***************************************************************************)
(* Transaction (src/transaction.rs): names, the calendar `date` and the    *)
(* days x funds NAV matrix `navs`.  The transactions the iterator is run   *)
(* over: each is what Transaction::new builds from aligned, date-ordered   *)
(* series.                                                                 *)
(***************************************************************************)
\* One fund over three successive trading days, NAVs 100, 101, 102: a
\* Friday and two Mondays, in three different months of two years.
ThreeDays ==
    [names |-> <<"asset0">>,
     date  |-> <<Ymd(2023, 12, 29), Ymd(2024, 1, 29), Ymd(2024, 3, 4)>>,
     navs  |-> << <<100>>, <<101>>, <<102>> >>]

\* Two funds over two days of one week.
TwoFunds ==
    [names |-> <<"hs300", "gz2000">>,
     date  |-> <<Ymd(2024, 1, 30), Ymd(2024, 1, 31)>>,
     navs  |-> << <<1, 2>>, <<4, 5>> >>]

\* A window that holds no trading day (start_date = end_date).
NoDays ==
    [names |-> <<"hs300", "gz2000">>,
     date  |-> << >>,
     navs  |-> << >>]

\* Number of days of the Dense calendar: more than the window next_month
\* searches.
DenseDays == 65

\* One fund with a NAV on every day from Friday 2023-12-01 on.
Dense ==
    [names |-> <<"asset0">>,
     date  |-> [i \in 1..DenseDays |-> Ymd(2023, 12, 1) + (i - 1)],
     navs  |-> [i \in 1..DenseDays |-> <<1>>]]

Transactions == {ThreeDays, TwoFunds, NoDays}

Transaction_ndays(t) == Len(t.date)

Transaction_nfunds(t) == Len(t.names)

\* The unit of the exact arithmetic: quantities are multiples of 1/Scale(t).
RECURSIVE LcmSeq(_)
LcmSeq(s) == IF s = << >> THEN 1 ELSE Lcm(Head(s), LcmSeq(Tail(s)))

Scale(t) == LcmSeq([d \in 1..Len(t.navs) |-> LcmSeq(t.navs[d])])

VARIABLES
    transaction,  \* the Transaction all iterators borrow
    its,          \* the four iterators, by (save_log, save_record)
    call,         \* the name of the last public call made on the iterators
    ret,          \* its result, per iterator
    today_ops,    \* the bag of inflow/buy/sell calls accepted since the last flush
    ncalls,       \* number of accepted inflow/buy/sell calls and of advances
                  \* by zero days made so far
    record1,      \* a ConciseRecord of its own: its `records`
    record2,      \* a DetailedRecord of its own: its `records`
    outcome,      \* how the last append to record1 or record2 ended
    args,         \* the arguments of the last call of a free function or
                  \* constructor
    result        \* what that call returned

vars == <<transaction, its, call, ret, today_ops, ncalls, record1, record2, outcome,
          args, result>>

Flags == BOOLEAN \X BOOLEAN

\* Bound on the number of calls of one run that leave the cursor where it
\* is and change the iterator: the accepted inflow/buy/sell calls and the
\* advances by zero days.  Every other call moves the cursor forward or
\* changes nothing.
MaxCalls == 2

\* Arguments the calls are made with: whole currency units, whole shares.
Amounts == {100}

Fees == {0, 1}

SellFees == {1}

CommentFees == {1}

SellShares == {1}

Comments == {"note"}

(***************************************************************************)
(* TransactionIterator (src/transaction.rs).                               *)
(***************************************************************************)
ndays == Transaction_ndays(transaction)

nfunds == Transaction_nfunds(transaction)

Funds == 1..nfunds

\* transaction.navs[[row, fundid]] with a 0-based row.
nav_at(row, fundid) == transaction.navs[row + 1][fundid]

\* transaction.date[i] with a 0-based i.
date_at(i) == transaction.date[i + 1]

Zeros == [j \in Funds |-> 0]

Record_new == << >>

TransactionIterator_new(save_log, save_record) ==
    [index       |-> 0,
     iter_buffer |-> [cash |-> 0, shares |-> Zeros],
     iter_status |-> [cash |-> 0, shares |-> Zeros],
     iter_log    |-> IF save_log
                     THEN Some([cash   |-> [d \in 1..ndays |-> 0],
                                shares |-> [d \in 1..ndays |-> Zeros]])
                     ELSE None,
     iter_record |-> IF save_record
                     THEN Some([investments         |-> Zeros,
                                cash_comment_buffer |-> << >>,
                                fund_comment_buffer |-> [j \in Funds |-> << >>],
                                cash_record         |-> Record_new,
                                fund_records        |-> [j \in Funds |-> Record_new]])
                     ELSE None]

is_finished(it) == it.index = ndays

\* today() indexes date[index - 1] once finished: out of range on an empty
\* calendar, where the iterator is finished at index 0.
today_panics(it) == is_finished(it) /\ it.index = 0

today(it) == IF is_finished(it) THEN date_at(it.index - 1) ELSE date_at(it.index)

cash(it) == it.iter_status.cash

share(it, idx) == it.iter_status.shares[idx]

fund_asset(it, idx) ==
    IF it.index = 0 THEN 0 ELSE share(it, idx) * nav_at(it.index - 1, idx)

\* Variant of asset() that values the shares with the NAV row of the
\* current day.
asset_today_nav(it) ==
    IF it.index = 0 THEN 0
    ELSE SumSeq([j \in Funds |->
                    it.iter_status.shares[j] * nav_at(Min(it.index, ndays - 1), j)])
         + cash(it)

asset(it) ==
    IF it.index = 0 THEN 0
    ELSE SumSeq([j \in Funds |-> it.iter_status.shares[j] * nav_at(it.index - 1, j)])
         + cash(it)

\* Variant of dates() whose slice includes the current day.
dates_through_today(it) == SubSeq(transaction.date, 1, Min(it.index + 1, ndays))

dates(it) == SubSeq(transaction.date, 1, it.index)

navs(it) == SubSeq(transaction.navs, 1, it.index)

cash_log(it) ==
    IF it.iter_log.is_some THEN Some(SubSeq(it.iter_log.val.cash, 1, it.index))
    ELSE None

share_log(it, idx) ==
    IF it.iter_log.is_some
    THEN Some([d \in 1..it.index |-> it.iter_log.val.shares[d][idx]])
    ELSE None

fund_asset_log(it, idx) ==
    IF it.iter_log.is_some
    THEN Some([d \in 1..it.index |->
                  it.iter_log.val.shares[d][idx] * navs(it)[d][idx]])
    ELSE None

asset_log(it) ==
    IF it.iter_log.is_some
    THEN Some([d \in 1..it.index |->
                  SumSeq([j \in Funds |->
                             it.iter_log.val.shares[d][j] * navs(it)[d][j]])
                  + it.iter_log.val.cash[d]])
    ELSE None

(***************************************************************************)
(* Record<ConciseRecordSlice> / Record<DetailedRecordSlice>                *)
(* (src/record.rs): a ledger is the sequence `records` of its slices.      *)
(***************************************************************************)
\* The guard of both appends: `panic!("date must be ordered")`.
\* Variant of the guard of append that accepts every date.
append_never_panics(records, date) == FALSE

append_panics(records, date) ==
    records # << >> /\ date < records[Len(records)].date

\* Variant of the concise append that does not add the previous total.
ConciseRecord_append_no_total(records, date, investment, present_value, comment) ==
    Append(records,
           [date             |-> date,
            investment       |-> investment,
            present_value    |-> present_value,
            comment          |-> comment,
            total_investment |-> investment,
            profit           |-> present_value - investment])

ConciseRecord_append(records, date, investment, present_value, comment) ==
    LET total_investment ==
            IF records # << >>
            THEN investment + records[Len(records)].total_investment
            ELSE investment
    IN  Append(records,
               [date             |-> date,
                investment       |-> investment,
                present_value    |-> present_value,
                comment          |-> comment,
                total_investment |-> total_investment,
                profit           |-> present_value - total_investment])

\* share and total_share are in 1/Scale units, nav is a plain number, so
\* nav * share is in 1/Scale currency units like investment.
\* Variant of the detailed append whose total_share is the share of the new
\* entry alone.
DetailedRecord_append_share_alone(records, date, investment, nav, share_, comment) ==
    LET total_investment ==
            IF records # << >>
            THEN investment + records[Len(records)].total_investment
            ELSE investment
        total_share   == share_
        present_value == nav * total_share
    IN  Append(records,
               [date             |-> date,
                investment       |-> investment,
                nav              |-> nav,
                share            |-> share_,
                comment          |-> comment,
                fee              |-> investment - nav * share_,
                total_investment |-> total_investment,
                total_share      |-> total_share,
                present_value    |-> present_value,
                profit           |-> present_value - total_investment])

DetailedRecord_append(records, date, investment, nav, share_, comment) ==
    LET total_investment ==
            IF records # << >>
            THEN investment + records[Len(records)].total_investment
            ELSE investment
        total_share ==
            IF records # << >>
            THEN share_ + records[Len(records)].total_share
            ELSE share_
        present_value == nav * total_share
    IN  Append(records,
               [date             |-> date,
                investment       |-> investment,
                nav              |-> nav,
                share            |-> share_,
                comment          |-> comment,
                fee              |-> investment - nav * share_,
                total_investment |-> total_investment,
                total_share      |-> total_share,
                present_value    |-> present_value,
                profit           |-> present_value - total_investment])

(***************************************************************************)
(* merge_records!(record1, record2) (src/record.rs): the two ledgers are   *)
(* walked in date order; one entry is appended per date.                   *)
(***************************************************************************)
\* The inner `while let Some(s) = rs` loop: the index after the entries of
\* `records` from i on that are dated `date`.
\* Variant of the inner loop that consumes one entry at most.
run_end_one(records, i, date) ==
    IF i <= Len(records) /\ records[i].date = date THEN i + 1 ELSE i

RECURSIVE run_end(_, _, _)
run_end(records, i, date) ==
    IF i <= Len(records) /\ records[i].date = date
    THEN run_end(records, i + 1, date)
    ELSE i

\* The present value cache after the entries i..j-1 were consumed: the
\* value of the last of them, or the cached one when there is none.
\* Variant of the cache that forgets the value of a ledger without an entry
\* on the date.
present_value_no_carry(records, i, j, pv) ==
    IF j > i THEN records[j - 1].present_value ELSE 0

present_value_cache(records, i, j, pv) ==
    IF j > i THEN records[j - 1].present_value ELSE pv

\* The sum of the investments of the entries i..j-1.
\* Variant of the sum that takes the first entry of the date only.
run_investment_first(records, i, j) ==
    IF i >= j THEN 0 ELSE records[i].investment

RECURSIVE run_investment(_, _, _)
run_investment(records, i, j) ==
    IF i >= j THEN 0 ELSE records[i].investment + run_investment(records, i + 1, j)

\* The non-empty comments of the entries i..j-1, in order.
RECURSIVE run_comments(_, _, _)
run_comments(records, i, j) ==
    IF i >= j THEN << >>
    ELSE (IF records[i].comment # << >> THEN <<records[i].comment>> ELSE << >>)
             \o run_comments(records, i + 1, j)

\* comments.join("; ")
RECURSIVE join(_)
join(comments) ==
    IF comments = << >> THEN << >>
    ELSE IF Len(comments) = 1 THEN comments[1]
    ELSE comments[1] \o <<"; ">> \o join(Tail(comments))

\* Variant of the tag that is pushed when neither ledger has an entry on the
\* date.
estimated_tag_if_neither(status1, status2) ==
    IF ~status1 /\ ~status2 THEN << <<"estimated">> >> ELSE << >>

\* `if !(status1 && status2) { comments.push("estimated") }`
estimated_tag(status1, status2) ==
    IF ~(status1 /\ status2) THEN << <<"estimated">> >> ELSE << >>

RECURSIVE merge_loop(_, _, _, _, _, _, _)
merge_loop(r1, r2, i1, i2, pv1, pv2, record) ==
    IF i1 > Len(r1) /\ i2 > Len(r2) THEN record
    ELSE LET present_date ==
                 IF i1 <= Len(r1) /\ i2 <= Len(r2) THEN Min(r1[i1].date, r2[i2].date)
                 ELSE IF i1 <= Len(r1) THEN r1[i1].date
                 ELSE r2[i2].date
             j1 == run_end(r1, i1, present_date)
             j2 == run_end(r2, i2, present_date)
             p1 == present_value_cache(r1, i1, j1, pv1)
             p2 == present_value_cache(r2, i2, j2, pv2)
             present_investment ==
                 run_investment(r1, i1, j1) + run_investment(r2, i2, j2)
             comments ==
                 run_comments(r1, i1, j1) \o run_comments(r2, i2, j2)
                     \o estimated_tag(j1 > i1, j2 > i2)
         IN  merge_loop(r1, r2, j1, j2, p1, p2,
                        ConciseRecord_append(record, present_date, present_investment,
                                             p1 + p2, join(comments)))

merge_records(r1, r2) == merge_loop(r1, r2, 1, 1, 0, 0, Record_new)

(***************************************************************************)
(* record(): the cash ledger merged into an empty "Combined Record", and   *)
(* each fund ledger merged into the result in turn.                        *)
(***************************************************************************)
\* `for rec in record.fund_records.iter() { res = merge_records!(&res, rec) }`
\* from fund j on.
RECURSIVE record_loop(_, _, _)
record_loop(res, fund_records, j) ==
    IF j > Len(fund_records) THEN res
    ELSE record_loop(merge_records(res, fund_records[j]), fund_records, j + 1)

TransactionIterator_record(it) ==
    IF it.iter_record.is_some
    THEN Some(record_loop(merge_records(Record_new,
                                        it.iter_record.val.cash_record),
                          it.iter_record.val.fund_records, 1))
    ELSE None

(***************************************************************************)
(* The day-local operations.  Each yields the iterator after the call and  *)
(* what the call returned: "Ok" or "Err" (a TransactionError).             *)
(***************************************************************************)
Result(it, val) == [it |-> it, val |-> val, warn |-> {}]

assert_not_finished(it) == IF is_finished(it) THEN "Err" ELSE "Ok"

\* String::push_str of "; " and the note, done only on a non-empty buffer.
push_comment(buffer, comment) ==
    IF buffer # << >> THEN buffer \o <<"; ">> \o <<comment>> ELSE buffer

\* Variant of inflow without the assert_not_finished()? line.
inflow_unchecked(it, amount) ==
    Result([it EXCEPT !.iter_buffer.cash = @ + amount], "Ok")

inflow(it, amount) ==
    IF assert_not_finished(it) = "Err" THEN Result(it, "Err")
    ELSE Result([it EXCEPT !.iter_buffer.cash = @ + amount], "Ok")

inflow_comment(it, amount, comment) ==
    LET r == inflow(it, amount)
    IN  IF r.val = "Err" THEN r
        ELSE IF r.it.iter_record.is_some
        THEN Result([r.it EXCEPT !.iter_record.val.cash_comment_buffer =
                                     push_comment(@, comment)], "Ok")
        ELSE r

\* Variant of buy that writes the purchase into the committed status.
buy_commits(it, fundid, investment, fee) ==
    IF assert_not_finished(it) = "Err" THEN Result(it, "Err")
    ELSE LET b  == [it EXCEPT
                       !.iter_status.cash = @ - investment,
                       !.iter_status.shares[fundid] =
                           @ + ((investment - fee) \div nav_at(it.index, fundid))]
         IN  IF b.iter_record.is_some
             THEN Result([b EXCEPT !.iter_record.val.investments[fundid] =
                                      @ + investment], "Ok")
             ELSE Result(b, "Ok")

\* Variant of buy that prices the purchase with the NAV row of the previous
\* day (row 0 on day 0).
buy_yesterday_nav(it, fundid, investment, fee) ==
    IF assert_not_finished(it) = "Err" THEN Result(it, "Err")
    ELSE LET row == IF it.index = 0 THEN 0 ELSE it.index - 1
             b  == [it EXCEPT
                       !.iter_buffer.cash = @ - investment,
                       !.iter_buffer.shares[fundid] =
                           @ + ((investment - fee) \div nav_at(row, fundid))]
         IN  IF b.iter_record.is_some
             THEN Result([b EXCEPT !.iter_record.val.investments[fundid] =
                                      @ + investment], "Ok")
             ELSE Result(b, "Ok")

\* (investment - fee) / nav: exact, the NAV divides Scale.
buy(it, fundid, investment, fee) ==
    IF assert_not_finished(it) = "Err" THEN Result(it, "Err")
    ELSE LET b  == [it EXCEPT
                       !.iter_buffer.cash = @ - investment,
                       !.iter_buffer.shares[fundid] =
                           @ + ((investment - fee) \div nav_at(it.index, fundid))]
         IN  IF b.iter_record.is_some
             THEN Result([b EXCEPT !.iter_record.val.investments[fundid] =
                                      @ + investment], "Ok")
             ELSE Result(b, "Ok")

buy_comment(it, fundid, investment, fee, comment) ==
    LET r == buy(it, fundid, investment, fee)
    IN  IF r.val = "Err" THEN r
        ELSE IF r.it.iter_record.is_some
        THEN Result([r.it EXCEPT !.iter_record.val.fund_comment_buffer[fundid] =
                                     push_comment(@, comment)], "Ok")
        ELSE r

\* Variant of sell that does not charge the fee.
sell_ignores_fee(it, fundid, share_, fee) ==
    IF assert_not_finished(it) = "Err" THEN Result(it, "Err")
    ELSE LET income == share_ * nav_at(it.index, fundid)
             b == [it EXCEPT
                      !.iter_buffer.cash = @ + income,
                      !.iter_buffer.shares[fundid] = @ - share_]
         IN  IF b.iter_record.is_some
             THEN Result([b EXCEPT !.iter_record.val.investments[fundid] =
                                      @ - income], "Ok")
             ELSE Result(b, "Ok")

\* Variant of sell that books the gross proceeds, fee included, against the
\* investment of the fund.
sell_books_gross(it, fundid, share_, fee) ==
    IF assert_not_finished(it) = "Err" THEN Result(it, "Err")
    ELSE LET income == share_ * nav_at(it.index, fundid) - fee
             b == [it EXCEPT
                      !.iter_buffer.cash = @ + income,
                      !.iter_buffer.shares[fundid] = @ - share_]
         IN  IF b.iter_record.is_some
             THEN Result([b EXCEPT !.iter_record.val.investments[fundid] =
                                      @ - (income + fee)], "Ok")
             ELSE Result(b, "Ok")

sell(it, fundid, share_, fee) ==
    IF assert_not_finished(it) = "Err" THEN Result(it, "Err")
    ELSE LET income == share_ * nav_at(it.index, fundid) - fee
             b == [it EXCEPT
                      !.iter_buffer.cash = @ + income,
                      !.iter_buffer.shares[fundid] = @ - share_]
         IN  IF b.iter_record.is_some
             THEN Result([b EXCEPT !.iter_record.val.investments[fundid] =
                                      @ - income], "Ok")
             ELSE Result(b, "Ok")

sell_comment(it, fundid, share_, fee, comment) ==
    LET r == sell(it, fundid, share_, fee)
    IN  IF r.val = "Err" THEN r
        ELSE IF r.it.iter_record.is_some
        THEN Result([r.it EXCEPT !.iter_record.val.fund_comment_buffer[fundid] =
                                     push_comment(@, comment)], "Ok")
        ELSE r

(***************************************************************************)
(* flush, step and flush_and_step.                                         *)
(***************************************************************************)
\* Variant of IterBuffer::reset that leaves the buffer as it is.
IterBuffer_keep(buffer) == buffer

IterBuffer_reset(buffer) == [cash |-> 0, shares |-> Zeros]

IterRecord_reset_buffer(record) ==
    [record EXCEPT !.investments = Zeros,
                   !.cash_comment_buffer = << >>,
                   !.fund_comment_buffer = [j \in Funds |-> << >>]]

\* Whether one of the appends of flush aborts with "date must be ordered".
flush_panics(it) ==
    /\ it.iter_record.is_some
    /\ \/ append_panics(it.iter_record.val.cash_record, date_at(it.index))
       \/ \E j \in Funds :
              append_panics(it.iter_record.val.fund_records[j], date_at(it.index))

\* Variant of the status update of flush that skips it when recording.
flush_status_unless_recording(it) ==
    IF it.iter_record.is_some THEN it.iter_status
    ELSE [cash   |-> it.iter_status.cash + it.iter_buffer.cash,
          shares |-> [j \in Funds |->
                         it.iter_status.shares[j] + it.iter_buffer.shares[j]]]

\* The committed status after the buffer is added to it.
flush_status(it) ==
    [cash   |-> it.iter_status.cash + it.iter_buffer.cash,
     shares |-> [j \in Funds |->
                    it.iter_status.shares[j] + it.iter_buffer.shares[j]]]

\* Variant of flush that writes no ledger entry on a day without calls.
flush_skips_idle_day(it) ==
    LET status == flush_status(it)
        today_ == date_at(it.index)
        idle   == /\ it.iter_buffer = IterBuffer_reset(it.iter_buffer)
                  /\ it.iter_record.is_some
                  /\ it.iter_record.val.investments = Zeros
        record ==
            IF it.iter_record.is_some /\ ~idle
            THEN LET r == it.iter_record.val
                 IN  Some(IterRecord_reset_buffer(
                        [r EXCEPT
                           !.cash_record =
                               ConciseRecord_append(@, today_, it.iter_buffer.cash,
                                                    status.cash, r.cash_comment_buffer),
                           !.fund_records =
                               [j \in Funds |->
                                   DetailedRecord_append(@[j], today_, r.investments[j],
                                                         nav_at(it.index, j),
                                                         it.iter_buffer.shares[j],
                                                         r.fund_comment_buffer[j])]]))
            ELSE it.iter_record
    IN  [it EXCEPT !.iter_status = status,
                   !.iter_record = record,
                   !.iter_buffer = IterBuffer_reset(@)]

flush(it) ==
    LET status == flush_status(it)
        today_ == date_at(it.index)
        record ==
            IF it.iter_record.is_some
            THEN LET r == it.iter_record.val
                 IN  Some(IterRecord_reset_buffer(
                        [r EXCEPT
                           !.cash_record =
                               ConciseRecord_append(@, today_, it.iter_buffer.cash,
                                                    status.cash, r.cash_comment_buffer),
                           !.fund_records =
                               [j \in Funds |->
                                   DetailedRecord_append(@[j], today_, r.investments[j],
                                                         nav_at(it.index, j),
                                                         it.iter_buffer.shares[j],
                                                         r.fund_comment_buffer[j])]]))
            ELSE None
    IN  [it EXCEPT !.iter_status = status,
                   !.iter_record = record,
                   !.iter_buffer = IterBuffer_reset(@)]

\* Variant of step that writes the log row of the current day only.
step_logs_one_day(it, n) ==
    LET index == Min(it.index + n, ndays)
        log ==
            IF it.iter_log.is_some
            THEN Some([cash   |-> [d \in 1..ndays |->
                                      IF it.index < d /\ d <= Min(it.index + 1, index)
                                      THEN it.iter_status.cash
                                      ELSE it.iter_log.val.cash[d]],
                       shares |-> [d \in 1..ndays |->
                                      IF it.index < d /\ d <= Min(it.index + 1, index)
                                      THEN it.iter_status.shares
                                      ELSE it.iter_log.val.shares[d]]])
            ELSE None
    IN  [it EXCEPT !.iter_log = log, !.index = index]

\* Variant of step that takes n as the new index, not as an offset.
step_absolute(it, n) ==
    LET index == Min(n, ndays)
        log ==
            IF it.iter_log.is_some
            THEN Some([cash   |-> [d \in 1..ndays |->
                                      IF it.index < d /\ d <= index
                                      THEN it.iter_status.cash
                                      ELSE it.iter_log.val.cash[d]],
                       shares |-> [d \in 1..ndays |->
                                      IF it.index < d /\ d <= index
                                      THEN it.iter_status.shares
                                      ELSE it.iter_log.val.shares[d]]])
            ELSE None
    IN  [it EXCEPT !.iter_log = log, !.index = index]

step(it, n) ==
    LET index == Min(it.index + n, ndays)
        log ==
            IF it.iter_log.is_some
            THEN Some([cash   |-> [d \in 1..ndays |->
                                      IF it.index < d /\ d <= index
                                      THEN it.iter_status.cash
                                      ELSE it.iter_log.val.cash[d]],
                       shares |-> [d \in 1..ndays |->
                                      IF it.index < d /\ d <= index
                                      THEN it.iter_status.shares
                                      ELSE it.iter_log.val.shares[d]]])
            ELSE None
    IN  [it EXCEPT !.iter_log = log, !.index = index]

\* Variant of flush_and_step that returns at once, silently, when n is 0.
flush_and_step_skip_zero(it, n) ==
    IF is_finished(it) THEN Result(it, "None")
    ELSE IF n = 0 THEN Result(it, "Some")
    ELSE IF flush_panics(it) THEN Result(it, "panic")
    ELSE LET after == step(flush(it), n)
         IN  [it   |-> after,
              val  |-> IF is_finished(after) THEN "None" ELSE "Some",
              warn |-> {}]

\* The result of an advance: "Some" (still active), "None" (reached the end)
\* or "panic"; warn holds the diagnostics written to stderr.
flush_and_step(it, n) ==
    IF is_finished(it) THEN Result(it, "None")
    ELSE IF flush_panics(it) THEN Result(it, "panic")
    ELSE LET after == step(flush(it), n)
         IN  [it   |-> after,
              val  |-> IF is_finished(after) THEN "None" ELSE "Some",
              warn |-> IF n = 0 THEN {"same_date"} ELSE {}]

(***************************************************************************)
(* The advance operations.                                                 *)
(***************************************************************************)
\* The width of the window next_month searches: date[index + 1 .. index + 61].
MonthWindow == 61

\* Variant of next_day that steps two days.
next_day_two(it) == flush_and_step(it, 2)

next_day(it) == flush_and_step(it, 1)

\* Variant of next_weekday whose loop does not skip the current day.
next_weekday_from_today(it, weekday_opt) ==
    IF today_panics(it) THEN Result(it, "panic")
    ELSE LET weekday == IF weekday_opt.is_some THEN weekday_opt.val
                        ELSE WeekdayOf(today(it))
             rest    == Len(transaction.date) - it.index
             hits    == {i \in 0..(rest - 1) :
                            WeekdayOf(date_at(it.index + i)) = weekday}
             n       == IF hits = {} THEN rest
                        ELSE CHOOSE i \in hits : \A k \in hits : i <= k
         IN  flush_and_step(it, n)

\* `weekday.unwrap_or(self.today().weekday())` evaluates today() first,
\* whatever the argument.
next_weekday(it, weekday_opt) ==
    IF today_panics(it) THEN Result(it, "panic")
    ELSE LET weekday == IF weekday_opt.is_some THEN weekday_opt.val
                        ELSE WeekdayOf(today(it))
             rest    == Len(transaction.date) - it.index
             hits    == {i \in 1..(rest - 1) :
                            WeekdayOf(date_at(it.index + i)) = weekday}
             n       == IF hits = {} THEN rest
                        ELSE CHOOSE i \in hits : \A k \in hits : i <= k
         IN  flush_and_step(it, n)

\* Variant of goto that searches the whole calendar and steps by the index
\* found.
goto_whole_calendar(it, date) ==
    LET n == search_sorted(transaction.date, date, None)
    IN  flush_and_step(it, n)

goto(it, date) ==
    LET len == Len(transaction.date)
        n   == search_sorted(Slice(transaction.date, Min(it.index, len), len),
                             date, None)
    IN  flush_and_step(it, n)

\* Variant of next_month that searches a window of 31 days.
next_month_window_31(it, day_opt) ==
    IF today_panics(it) THEN Result(it, "panic")
    ELSE LET len == Len(transaction.date)
             td  == date_at(it.index)
             day == IF day_opt.is_some THEN day_opt.val ELSE DayOf(td)
             m1  == MonthOf(td) + 1
             m   == IF m1 > 12 THEN 1 ELSE m1
             y   == IF m1 > 12 THEN YearOf(td) + 1 ELSE YearOf(td)
             tgt == IF ValidYmd(y, m, day) THEN Ymd(y, m, day)
                    ELSE Ymd(y, m, 1) + (day - 1)
             n   == search_sorted(
                        Slice(transaction.date,
                              Min(it.index + 1, len),
                              Min(it.index + 31, len)),
                        tgt, None) + 1
         IN  flush_and_step(it, n)

\* Variant of next_month_date that replaces a day the month does not have
\* by the last day of the month.
next_month_date_clamped(it, day_opt) ==
    LET day    == IF day_opt.is_some THEN day_opt.val ELSE DayOf(today(it))
        month1 == MonthOf(today(it)) + 1
        month  == IF month1 > 12 THEN 1 ELSE month1
        year   == IF month1 > 12 THEN YearOf(today(it)) + 1 ELSE YearOf(today(it))
    IN  IF ValidYmd(year, month, day)
        THEN [date |-> Ymd(year, month, day), warn |-> {}]
        ELSE [date |-> Ymd(year, month, DaysInMonth(year, month)),
              warn |-> {"day_out_of_range"}]

\* day is a u32 >= 1 (the documented domain: "day begins from 1").
next_month_date(it, day_opt) ==
    LET day    == IF day_opt.is_some THEN day_opt.val ELSE DayOf(today(it))
        month1 == MonthOf(today(it)) + 1
        month  == IF month1 > 12 THEN 1 ELSE month1
        year   == IF month1 > 12 THEN YearOf(today(it)) + 1 ELSE YearOf(today(it))
    IN  IF ValidYmd(year, month, day)
        THEN [date |-> Ymd(year, month, day), warn |-> {}]
        ELSE [date |-> Ymd(year, month, 1) + (day - 1), warn |-> {"day_out_of_range"}]

next_month(it, day_opt) ==
    IF today_panics(it) THEN Result(it, "panic")
    ELSE LET len == Len(transaction.date)
             tgt == next_month_date(it, day_opt)
             n   == search_sorted(
                        Slice(transaction.date,
                              Min(it.index + 1, len),
                              Min(it.index + MonthWindow, len)),
                        tgt.date, None) + 1
             r   == flush_and_step(it, n)
         IN  [r EXCEPT !.warn = @ \cup tgt.warn]

(***************************************************************************)
(* The driver: one strategy issuing the same calls to four iterators over  *)
(* the same Transaction, one per (save_log, save_record) combination.      *)
(***************************************************************************)
Plain == <<FALSE, FALSE>>

\* Quantities in 1/Scale units.
Units(x) == x * Scale(transaction)

DayArgs == {None, Some(1), Some(31)}

\* The weekdays next_weekday is called with: none, Monday (0), Wednesday (2).
WeekdayArgs == {None, Some(0), Some(2)}

\* Dates goto is called with: every calendar day, the day after each, and
\* the day before the first one.
GotoDates ==
    {date_at(i) : i \in 0..(ndays - 1)}
        \cup {date_at(i) + 1 : i \in 0..(ndays - 1)}
        \cup {Ymd(EpochYear, 12, 1)}

Running == \A f \in Flags : ret[f].val # "panic"

Init ==
    /\ transaction \in Transactions
    /\ its = [f \in Flags |-> TransactionIterator_new(f[1], f[2])]
    /\ call = "new"
    /\ ret = [f \in Flags |-> [val |-> "Ok", warn |-> {}]]
    /\ today_ops = EmptyBag
    /\ ncalls = 0
    /\ record1 = Record_new
    /\ record2 = Record_new
    /\ outcome = "Ok"
    /\ args = << >>
    /\ result = None

\* The function `res` over Flags, as an explicit table.
Table(res) ==
    (<<FALSE, FALSE>> :> res[<<FALSE, FALSE>>]) @@ (<<FALSE, TRUE>> :> res[<<FALSE, TRUE>>])
        @@ (<<TRUE, FALSE>> :> res[<<TRUE, FALSE>>]) @@ (<<TRUE, TRUE>> :> res[<<TRUE, TRUE>>])

\* A day-local call named op whose results on the four iterators are res;
\* entry describes it in today_ops.
DayOp(op, res, entry) ==
    /\ Running
    /\ ncalls < MaxCalls \/ is_finished(its[Plain])
    /\ its' = [f \in Flags |-> res[f].it]
    /\ ret' = [f \in Flags |-> [val |-> res[f].val, warn |-> res[f].warn]]
    /\ call' = op
    /\ today_ops' = IF res[Plain].val = "Ok" THEN today_ops (+) SetToBag({entry})
                    ELSE today_ops
    /\ ncalls' = IF res[Plain].val = "Ok" THEN ncalls + 1 ELSE ncalls
    /\ UNCHANGED <<transaction, record1, record2, outcome, args, result>>

\* The advance flushed an active iterator and left the cursor where it was.
SameDate(res) ==
    \E f \in Flags : "same_date" \in res[f].warn

\* An advance call named op whose results on the four iterators are res.
Advance(op, res) ==
    /\ Running
    /\ SameDate(res) => ncalls < MaxCalls
    /\ ncalls' = IF SameDate(res) THEN ncalls + 1 ELSE ncalls
    /\ its' = [f \in Flags |-> res[f].it]
    /\ ret' = [f \in Flags |-> [val |-> res[f].val, warn |-> res[f].warn]]
    /\ call' = op
    /\ today_ops' = IF is_finished(its[Plain]) \/ res[Plain].val = "panic"
                    THEN today_ops ELSE EmptyBag
    /\ UNCHANGED <<transaction, record1, record2, outcome, args, result>>

InflowEntry(a) == [kind |-> "inflow", amount |-> Units(a)]

BuyEntry(j, a, fee) ==
    [kind |-> "buy", fundid |-> j, investment |-> Units(a), fee |-> Units(fee)]

SellEntry(j, sh, fee) ==
    [kind |-> "sell", fundid |-> j, share |-> Units(sh), fee |-> Units(fee)]

InflowCall(a) ==
    \E res \in {Table([f \in Flags |-> inflow(its[f], Units(a))])} :
        DayOp("inflow", res, InflowEntry(a))

InflowCommentCall(a, c) ==
    \E res \in {Table([f \in Flags |-> inflow_comment(its[f], Units(a), c)])} :
        DayOp("inflow_comment", res, InflowEntry(a))

BuyCall(j, a, fee) ==
    \E res \in {Table([f \in Flags |-> buy(its[f], j, Units(a), Units(fee))])} :
        DayOp("buy", res, BuyEntry(j, a, fee))

BuyCommentCall(j, a, fee, c) ==
    \E res \in {Table([f \in Flags |-> buy_comment(its[f], j, Units(a), Units(fee), c)])} :
        DayOp("buy_comment", res, BuyEntry(j, a, fee))

SellCall(j, sh, fee) ==
    \E res \in {Table([f \in Flags |-> sell(its[f], j, Units(sh), Units(fee))])} :
        DayOp("sell", res, SellEntry(j, sh, fee))

SellCommentCall(j, sh, fee, c) ==
    \E res \in {Table([f \in Flags |-> sell_comment(its[f], j, Units(sh), Units(fee), c)])} :
        DayOp("sell_comment", res, SellEntry(j, sh, fee))

NextDayCall ==
    \E res \in {Table([f \in Flags |-> next_day(its[f])])} :
        Advance("next_day", res)

NextWeekdayCall(w) ==
    \E res \in {Table([f \in Flags |-> next_weekday(its[f], w)])} :
        Advance("next_weekday", res)

GotoCall(d) ==
    \E res \in {Table([f \in Flags |-> goto(its[f], d)])} :
        Advance("goto", res)

NextMonthCall(d) ==
    \E res \in {Table([f \in Flags |-> next_month(its[f], d)])} :
        Advance("next_month", res)

Inflow == \E a \in Amounts : InflowCall(a)

InflowComment == \E a \in Amounts, c \in Comments : InflowCommentCall(a, c)

Buy == \E j \in Funds, a \in Amounts, fee \in Fees : BuyCall(j, a, fee)

BuyComment ==
    \E j \in Funds, a \in Amounts, fee \in CommentFees, c \in Comments :
        BuyCommentCall(j, a, fee, c)

Sell == \E j \in Funds, sh \in SellShares, fee \in SellFees : SellCall(j, sh, fee)

SellComment ==
    \E j \in Funds, sh \in SellShares, fee \in CommentFees, c \in Comments :
        SellCommentCall(j, sh, fee, c)

NextDay == NextDayCall

NextWeekday == \E w \in WeekdayArgs : NextWeekdayCall(w)

Goto == \E d \in GotoDates : GotoCall(d)

NextMonth == \E d \in DayArgs : NextMonthCall(d)

Next ==
    \/ Inflow
    \/ InflowComment
    \/ Buy
    \/ BuyComment
    \/ Sell
    \/ SellComment
    \/ NextDay
    \/ NextWeekday
    \/ Goto
    \/ NextMonth

Spec == Init /\ [][Next]_vars

(***************************************************************************)
(* Calendar navigation over the Dense calendar: the advances alone, on a   *)
(* calendar longer than the window of next_month.                          *)
(***************************************************************************)
InitDense ==
    /\ transaction = Dense
    /\ its = [f \in Flags |-> TransactionIterator_new(f[1], f[2])]
    /\ call = "new"
    /\ ret = [f \in Flags |-> [val |-> "Ok", warn |-> {}]]
    /\ today_ops = EmptyBag
    /\ ncalls = 0
    /\ record1 = Record_new
    /\ record2 = Record_new
    /\ outcome = "Ok"
    /\ args = << >>
    /\ result = None

\* Bound on the number of advances of one run over the Dense calendar.
MaxAdvances == 3

\* Every advance from an active iterator adds one entry to the cash ledger.
advances == Len(its[<<FALSE, TRUE>>].iter_record.val.cash_record)

NextDense ==
    \/ advances < MaxAdvances /\ NextDay
    \/ advances < MaxAdvances /\ NextWeekday
    \/ advances < MaxAdvances /\ NextMonth

SpecDense == InitDense /\ [][NextDense]_vars

(***************************************************************************)
(* The ledgers on their own: appends to a ConciseRecord and to a           *)
(* DetailedRecord, as in the examples of append and in test_merge.         *)
(***************************************************************************)
\* Bound on the number of entries of each of the two ledgers.
MaxEntries == 2

\* 2024-01-01, 2024-01-05 and 2024-02-01.
LedgerDates == {Ymd(2024, 1, 1), Ymd(2024, 1, 5), Ymd(2024, 2, 1)}

Investments == {10, 15}

PresentValues == {10, 21}

DetailedInvestments == {20}

Navs == {1, 2}

Shares == {10}

InitLedger == Init /\ transaction = NoDays

\* record1.append(date, investment, present_value, "note")
AppendConciseCall(date, investment, present_value) ==
    /\ outcome # "panic"
    /\ Len(record1) < MaxEntries
    /\ IF append_panics(record1, date)
       THEN outcome' = "panic" /\ UNCHANGED record1
       ELSE /\ outcome' = "Ok"
            /\ record1' = ConciseRecord_append(record1, date, investment,
                                               present_value, <<"note">>)
    /\ UNCHANGED <<transaction, its, call, ret, today_ops, ncalls, record2, args, result>>

\* The comment of the appends to record2: none at NAV 1, "memo" otherwise.
DetailedComment(nav) == IF nav = 1 THEN << >> ELSE <<"memo">>

\* record2.append(date, investment, nav, share, comment)
AppendDetailedCall(date, investment, nav, share_) ==
    /\ outcome # "panic"
    /\ Len(record2) < MaxEntries
    /\ IF append_panics(record2, date)
       THEN outcome' = "panic" /\ UNCHANGED record2
       ELSE /\ outcome' = "Ok"
            /\ record2' = DetailedRecord_append(record2, date, investment, nav,
                                                share_, DetailedComment(nav))
    /\ UNCHANGED <<transaction, its, call, ret, today_ops, ncalls, record1, args, result>>

AppendConcise ==
    \E date \in LedgerDates, investment \in Investments,
       present_value \in PresentValues :
        AppendConciseCall(date, investment, present_value)

AppendDetailed ==
    \E date \in LedgerDates, investment \in DetailedInvestments,
       nav \in Navs, share_ \in Shares :
        AppendDetailedCall(date, investment, nav, share_)

NextLedger ==
    \/ AppendConcise
    \/ AppendDetailed

SpecLedger == InitLedger /\ [][NextLedger]_vars

(***************************************************************************)
(* search_sorted on its own: every sorted sequence of keys of at most      *)
(* MaxLen elements, duplicates included, every searched value below,       *)
(* between, equal to and above the keys, and every `side`.                 *)
(***************************************************************************)
\* Bound on the length of the searched slice.
MaxLen == 4

\* Number of distinct keys; the keys are the even numbers 2, 4, .. and the
\* searched values are 1 .. 2 * MaxKeys + 1.
MaxKeys == 3

Keys == {2 * k : k \in 1..MaxKeys}

SearchValues == 1..(2 * MaxKeys + 1)

Sorted(a) == \A i \in 1..Len(a), j \in 1..Len(a) : i <= j => a[i] <= a[j]

SortedSlices ==
    UNION {{a \in [1..n -> Keys] : Sorted(a)} : n \in 0..MaxLen}

Sides == {None, Some(LEFT), Some(RIGHT)}

InitSearch ==
    /\ transaction = NoDays
    /\ its = [f \in Flags |-> TransactionIterator_new(f[1], f[2])]
    /\ call = "new"
    /\ ret = [f \in Flags |-> [val |-> "Ok", warn |-> {}]]
    /\ today_ops = EmptyBag
    /\ ncalls = 0
    /\ record1 = Record_new
    /\ record2 = Record_new
    /\ outcome = "Ok"
    /\ args \in {[a |-> a, v |-> v, side |-> side] :
                    a \in SortedSlices, v \in SearchValues, side \in Sides}
    /\ result = None

\* search_sorted(&a, &v, |&x| x, side)
SearchSorted ==
    /\ call = "new"
    /\ call' = "search_sorted"
    /\ result' = Some(search_sorted(args.a, args.v, args.side))
    /\ UNCHANGED <<transaction, its, ret, today_ops, ncalls, record1, record2,
                   outcome, args>>

NextSearch == SearchSorted

SpecSearch == InitSearch /\ [][NextSearch]_vars

(***************************************************************************)
(* Transaction::new on its own (src/transaction.rs).  A fund is its name   *)
(* and its `data()`: a sequence of slices [date, value] in date order.     *)
(***************************************************************************)
\* d[idx] on a fund of Len(data) slices: out of range, the index panics.
index_panics(data, idx) == idx < 0 \/ idx >= Len(data)

MaxOf(S) == CHOOSE x \in S : \A y \in S : y <= x

MinOf(S) == CHOOSE x \in S : \A y \in S : x <= y

fund_dates(d) == [k \in 1..Len(d.data) |-> d.data[k].date]

fund_values(d) == [k \in 1..Len(d.data) |-> d.data[k].value]

\* funds.iter().map(|d| d[0].date()).max().unwrap()
start_default(funds) ==
    MaxOf({funds[c].data[1].date : c \in 1..Len(funds)})

\* The earliest last date itself, without the day added to it.
end_default_last_date(funds) ==
    MinOf({funds[c].data[Len(funds[c].data)].date : c \in 1..Len(funds)})

\* funds.iter().map(|d| d[d.len() - 1].date()).min().unwrap() + Days::new(1)
end_default(funds) ==
    MinOf({funds[c].data[Len(funds[c].data)].date : c \in 1..Len(funds)}) + 1

\* Both defaults are computed before unwrap_or looks at the option, so the
\* constructor panics without funds (max().unwrap() of nothing) and on a
\* fund without slices (d[0], d[d.len() - 1]), given dates or not.
defaults_panic(funds) ==
    \/ Len(funds) = 0
    \/ \E c \in 1..Len(funds) :
           \/ index_panics(funds[c].data, 0)
           \/ index_panics(funds[c].data, Len(funds[c].data) - 1)

\* beg and end of fund d, 0-based: d.data()[beg..end] is the window.
window(d, start_date, end_date) ==
    LET beg == search_sorted(fund_dates(d), start_date, None)
        end == search_sorted(Slice(fund_dates(d), beg, Len(d.data)),
                             end_date, None) + beg
    IN  <<beg, end>>

\* The result of Transaction::new: a panic or the Transaction.
Transaction_new(funds, start_date_opt, end_date_opt) ==
    IF defaults_panic(funds) THEN [panics |-> TRUE]
    ELSE
    LET start_date == IF start_date_opt.is_some THEN start_date_opt.val
                      ELSE start_default(funds)
        end_date   == IF end_date_opt.is_some THEN end_date_opt.val
                      ELSE end_default(funds)
        w(c)       == window(funds[c], start_date, end_date)
        dates_(c)  == Slice(fund_dates(funds[c]), w(c)[1], w(c)[2])
        values_(c) == Slice(fund_values(funds[c]), w(c)[1], w(c)[2])
        date       == dates_(1)
        n          == Len(date)
        \* navs.extend(..) fund after fund: n values of each fund
        navs_      == [k \in 1..(n * Len(funds)) |->
                          values_(((k - 1) \div n) + 1)[((k - 1) % n) + 1]]
    IN  IF \E c \in 2..Len(funds) : dates_(c) # date
        THEN [panics |-> TRUE]
        ELSE [panics |-> FALSE,
              val |-> [names |-> [c \in 1..Len(funds) |-> funds[c].name],
                       date  |-> date,
                       \* shape (n, nfunds), strides (1, n)
                       navs  |-> [r \in 1..n |->
                                    [c \in 1..Len(funds) |->
                                        navs_[(r - 1) + (c - 1) * n + 1]]]]]

\* Bound on the number of funds given to the constructor.
MaxFunds == 2

\* Number of days from 2024-01-01 on which a fund may have a slice.
MaxDays == 3

FundDates == {Ymd(2024, 1, 1) + k : k \in 0..(MaxDays - 1)}

\* The NAV of fund c on a date: different for every fund and date.
NavOf(c, date) == 10 * c + (date - Ymd(2024, 1, 1)) + 1

\* The funds of column c: a slice on every date of any subset of FundDates.
FundsAt(c) ==
    LET Increasing(a) == \A i \in 1..Len(a), j \in 1..Len(a) :
                             i < j => a[i] < a[j]
        DateSeqs == UNION {{a \in [1..n -> FundDates] : Increasing(a)} :
                              n \in 0..MaxDays}
    IN  {[name |-> <<"fund", c>>,
          data |-> [k \in 1..Len(a) |->
                       [date |-> a[k], value |-> NavOf(c, a[k])]]] :
            a \in DateSeqs}

RECURSIVE FundLists(_)
FundLists(n) ==
    IF n = 0 THEN {<< >>}
    ELSE FundLists(n - 1) \cup
         {Append(fs, d) : fs \in {x \in FundLists(n - 1) : Len(x) = n - 1},
                          d \in FundsAt(n)}

DateOptions == {None} \cup {Some(d) : d \in FundDates}

InitNew ==
    /\ transaction = NoDays
    /\ its = [f \in Flags |-> TransactionIterator_new(f[1], f[2])]
    /\ call = "new"
    /\ ret = [f \in Flags |-> [val |-> "Ok", warn |-> {}]]
    /\ today_ops = EmptyBag
    /\ ncalls = 0
    /\ record1 = Record_new
    /\ record2 = Record_new
    /\ outcome = "Ok"
    /\ args \in {[funds |-> fs, start_date |-> s, end_date |-> e] :
                    fs \in FundLists(MaxFunds), s \in DateOptions,
                    e \in DateOptions}
    /\ result = None

\* Transaction::new(&funds, start_date, end_date)
TransactionNew ==
    /\ call = "new"
    /\ call' = "Transaction::new"
    /\ result' = Transaction_new(args.funds, args.start_date, args.end_date)
    /\ UNCHANGED <<transaction, its, ret, today_ops, ncalls, record1, record2,
                   outcome, args>>

NextNew == TransactionNew

SpecNew == InitNew /\ [][NextNew]_vars

(***************************************************************************)
(* The internal rate of return (src/utility.rs, src/record.rs).            *)
(*                                                                         *)
(* An f64 is modelled exactly as a record [k, v]: a finite number v /      *)
(* DAYS_PER_YEAR (k = "fin"), an infinity of sign v (k = "inf") or NaN.    *)
(* exp and ln are defined where their value is exact: exp(0) = 1,          *)
(* exp(+inf) = +inf, exp(-inf) = 0, exp(NaN) = NaN and ln(1) = 0; products *)
(* and quotients of finite numbers where the result is a multiple of       *)
(* 1 / DAYS_PER_YEAR.  The calls below stay inside that domain: every      *)
(* duration is 0 days, or the end value is the sum of the investments, or  *)
(* the investments are all zero.  Zeros carry no sign: the sign of a zero  *)
(* divisor only decides the sign of the infinite quotient, and the next    *)
(* iteration multiplies it by a duration of 0, which is NaN either way.    *)
(***************************************************************************)
DAYS_PER_YEAR == 360

Fin(v) == [k |-> "fin", v |-> v]

Inf(s) == [k |-> "inf", v |-> s]

NaN == [k |-> "nan", v |-> 0]

\* The f64 of an integer.
F64(n) == Fin(n * DAYS_PER_YEAR)

Sign(n) == IF n < 0 THEN -1 ELSE 1

Abs(n) == IF n < 0 THEN -n ELSE n

fneg(a) == [a EXCEPT !.v = -a.v]

fadd(a, b) ==
    CASE a.k = "nan" \/ b.k = "nan" -> NaN
      [] a.k = "inf" /\ b.k = "inf" -> IF a.v = b.v THEN a ELSE NaN
      [] a.k = "inf" /\ b.k = "fin" -> a
      [] a.k = "fin" /\ b.k = "inf" -> b
      [] a.k = "fin" /\ b.k = "fin" -> Fin(a.v + b.v)

fsub(a, b) == fadd(a, fneg(b))

fmul(a, b) ==
    CASE a.k = "nan" \/ b.k = "nan" -> NaN
      [] a.k = "inf" /\ b.k = "inf" -> Inf(a.v * b.v)
      [] a.k = "inf" /\ b.k = "fin" ->
            IF b.v = 0 THEN NaN ELSE Inf(a.v * Sign(b.v))
      [] a.k = "fin" /\ b.k = "inf" ->
            IF a.v = 0 THEN NaN ELSE Inf(b.v * Sign(a.v))
      [] a.k = "fin" /\ b.k = "fin"
            /\ Abs(a.v * b.v) % DAYS_PER_YEAR = 0 ->
            Fin(Sign(a.v * b.v) * (Abs(a.v * b.v) \div DAYS_PER_YEAR))

fdiv(a, b) ==
    CASE a.k = "nan" \/ b.k = "nan" -> NaN
      [] a.k = "inf" /\ b.k = "inf" -> NaN
      [] a.k = "inf" /\ b.k = "fin" -> Inf(a.v * Sign(b.v))
      [] a.k = "fin" /\ b.k = "inf" -> Fin(0)
      [] a.k = "fin" /\ b.k = "fin" /\ b.v = 0 ->
            IF a.v = 0 THEN NaN ELSE Inf(Sign(a.v))
      [] a.k = "fin" /\ b.k = "fin" /\ b.v # 0
            /\ Abs(a.v * DAYS_PER_YEAR) % Abs(b.v) = 0 ->
            Fin(Sign(a.v) * Sign(b.v)
                * (Abs(a.v * DAYS_PER_YEAR) \div Abs(b.v)))

fexp(a) ==
    CASE a.k = "nan" -> NaN
      [] a.k = "inf" -> IF a.v > 0 THEN a ELSE Fin(0)
      [] a.k = "fin" /\ a.v = 0 -> F64(1)

fln(a) ==
    CASE a = F64(1) -> Fin(0)

\* a.abs() < 1 / tol_inverse
fabs_lt(a, tol_inverse) ==
    a.k = "fin" /\ Abs(a.v) * tol_inverse < DAYS_PER_YEAR

RECURSIVE fsum(_)
fsum(s) == IF s = << >> THEN Fin(0) ELSE fadd(Head(s), fsum(Tail(s)))

\* `tol` of the call of newton1d in irr is 1e-6 = 1 / TolInverse.
TolInverse == 1000000

\* `maxiter` of the call of newton1d in irr.
MaxIter == 1000

\* The closure f of irr.
irr_f(t_list, investment_array, end_value, p) ==
    fsub(end_value,
         fsum([i \in 1..Min(Len(t_list), Len(investment_array)) |->
                 fmul(investment_array[i], fexp(fmul(p, t_list[i])))]))

\* The closure g of irr.
irr_g(t_list, investment_array, end_value, p) ==
    fsum([i \in 1..Min(Len(t_list), Len(investment_array)) |->
            fmul(fmul(fneg(investment_array[i]), t_list[i]),
                 fexp(fmul(p, t_list[i])))])

\* One pass of the body of the loop of newton1d, for the closures f and g of
\* irr, on the state st of the loop: the current x and what was returned.
newton1d_body(t_list, investment_array, end_value, tol_inverse, st) ==
    IF st.returned.is_some THEN st
    ELSE LET new_x == fsub(st.x, fdiv(irr_f(t_list, investment_array,
                                            end_value, st.x),
                                      irr_g(t_list, investment_array,
                                            end_value, st.x)))
         IN  IF fabs_lt(fsub(new_x, st.x), tol_inverse)
             THEN [x |-> new_x, returned |-> Some(new_x)]
             ELSE [x |-> new_x, returned |-> None]

\* n passes of the body from st: `for _ in 0..n`, as the passes of the
\* second half of the range from the state that the first half leaves.
RECURSIVE newton1d_loop(_, _, _, _, _, _)
newton1d_loop(t_list, investment_array, end_value, tol_inverse, st, n) ==
    IF n = 0 THEN st
    ELSE IF n = 1
    THEN newton1d_body(t_list, investment_array, end_value, tol_inverse, st)
    ELSE CHOOSE last \in
             {newton1d_loop(t_list, investment_array, end_value, tol_inverse,
                            half, n - (n \div 2)) :
                 half \in {newton1d_loop(t_list, investment_array, end_value,
                                         tol_inverse, st, n \div 2)}} : TRUE

\* newton1d(f, g, x0, tol, maxiter) for the closures f and g of irr: what
\* the loop returned, or None after maxiter passes.
newton1d(t_list, investment_array, end_value, x0, tol_inverse, maxiter) ==
    newton1d_loop(t_list, investment_array, end_value, tol_inverse,
                  [x |-> x0, returned |-> None], maxiter).returned

all_zeros(investment_array) ==
    \A i \in 1..Len(investment_array) : investment_array[i] = Fin(0)

\* irr(&days_array, &investment_array, end_value, x0) of utility.rs
irr(days_array, investment_array, end_value, x0) ==
    IF all_zeros(investment_array) THEN None
    ELSE LET t_list == [i \in 1..Len(days_array) |->
                           fdiv(days_array[i], F64(DAYS_PER_YEAR))]
             p0     == fln(fadd(x0, F64(1)))
             p      == newton1d(t_list, investment_array, end_value, p0,
                                TolInverse, MaxIter)
         IN  IF p.is_some THEN Some(fsub(fexp(p.val), F64(1))) ELSE None

(***************************************************************************)
(* Record::irr_direct, Record::irr and Record::irr_naive (src/record.rs)   *)
(* on the ledger record1.  Dates, values and indices are the arguments of  *)
(* the Rust calls; indices are 0-based.                                    *)
(***************************************************************************)
Panic == [panics |-> TRUE]

Return(x) == [panics |-> FALSE, val |-> x]

\* self.records[start_idx..end_idx] panics out of range.
range_panics(records, start_idx, end_idx) ==
    start_idx > end_idx \/ end_idx > Len(records)

\* t of irr_direct: the days from start_date and from the date of each
\* entry of the range to end_date.
irr_direct_days(records, start_date, end_date, start_idx, end_idx) ==
    LET t == <<start_date>> \o
             [i \in 1..(end_idx - start_idx) |-> records[start_idx + i].date]
    IN  [i \in 1..Len(t) |-> F64(end_date - t[i])]

\* x of irr_direct: start_value and the investment of each entry of the
\* range.
irr_direct_investments(records, start_value, start_idx, end_idx) ==
    <<start_value>> \o
    [i \in 1..(end_idx - start_idx) |->
        F64(records[start_idx + i].investment)]

\* self.irr_direct(start_date, end_date, start_value, end_value, start_idx,
\*                 end_idx, x0)
Record_irr_direct(records, start_date, end_date, start_value, end_value, start_idx, end_idx, x0) ==
    IF range_panics(records, start_idx, end_idx) THEN Panic
    ELSE LET t == irr_direct_days(records, start_date, end_date, start_idx,
                                  end_idx)
             x == irr_direct_investments(records, start_value, start_idx,
                                         end_idx)
             solved == irr(t, x, end_value, x0)
         IN  \* .expect("fail to solve irr")
             IF solved.is_some THEN Return(solved.val) ELSE Panic

\* What Record::irr gives to irr_direct, or a panic of its own: the
\* defaults are computed whether or not the argument was given.
Record_irr_arguments(records, start_date_opt, end_date_opt, start_value_opt, end_value_opt, x0_opt) ==
    IF Len(records) = 0 THEN Panic
    ELSE
    LET len        == Len(records)
        dates_     == [i \in 1..len |-> records[i].date]
        start_date == IF start_date_opt.is_some THEN start_date_opt.val
                      ELSE records[1].date
        end_date   == IF end_date_opt.is_some THEN end_date_opt.val
                      ELSE records[len].date
        start_idx  == search_sorted(dates_, start_date, None)
        end_idx    == search_sorted(dates_, end_date, None)
        \* self[start_idx] with start_idx = len
        start_panics == start_idx # 0 /\ start_idx >= len
        start_value_default ==
            IF start_idx = 0 THEN 0
            ELSE IF (start_date - records[start_idx].date)
                    < (records[start_idx + 1].date - start_date)
            THEN records[start_idx].present_value
            ELSE records[start_idx + 1].present_value
                 - records[start_idx + 1].investment
        \* self[end_idx - 1] with end_idx = 0
        end_panics == end_idx # len /\ end_idx = 0
        end_value_default ==
            IF end_idx = len THEN records[len].present_value
            ELSE IF (end_date - records[end_idx].date)
                    < (records[end_idx + 1].date - end_date)
            THEN records[end_idx].present_value
            ELSE records[end_idx + 1].present_value
                 - records[end_idx + 1].investment
    IN  IF start_panics \/ end_panics THEN Panic
        ELSE Return([start_date  |-> start_date,
                     end_date    |-> end_date,
                     start_value |-> IF start_value_opt.is_some
                                     THEN start_value_opt.val
                                     ELSE F64(start_value_default),
                     end_value   |-> IF end_value_opt.is_some
                                     THEN end_value_opt.val
                                     ELSE F64(end_value_default),
                     start_idx   |-> start_idx,
                     end_idx     |-> end_idx,
                     x0          |-> IF x0_opt.is_some THEN x0_opt.val
                                     ELSE F64(0)])

\* self.irr(start_date, end_date, start_value, end_value, x0)
Record_irr(records, start_date_opt, end_date_opt, start_value_opt, end_value_opt, x0_opt) ==
    LET a == Record_irr_arguments(records, start_date_opt, end_date_opt,
                                  start_value_opt, end_value_opt, x0_opt)
    IN  IF a.panics THEN Panic
        ELSE Record_irr_direct(records, a.val.start_date, a.val.end_date,
                               a.val.start_value, a.val.end_value,
                               a.val.start_idx, a.val.end_idx, a.val.x0)

\* self.irr_naive()
Record_irr_naive(records) == Record_irr(records, None, None, None, None, None)

\* The inputs of irr on which the model of f64 is exact.
Exact(days_array, investment_array, end_value) ==
    \/ all_zeros(investment_array)
    \/ \A i \in 1..Len(days_array) : days_array[i] = Fin(0)
    \/ end_value = fsum(investment_array)

ExactDirect(records, start_date, end_date, start_value, end_value, start_idx, end_idx) ==
    IF range_panics(records, start_idx, end_idx) THEN TRUE
    ELSE Exact(irr_direct_days(records, start_date, end_date, start_idx,
                             end_idx),
             irr_direct_investments(records, start_value, start_idx, end_idx),
             end_value)

StartValues == {F64(0), F64(10)}

EndValues == {F64(10), F64(25)}

\* A run appends to record1 and then makes one call of an irr method, which
\* leaves the ledger as it is.
InitIrr == Init /\ transaction = NoDays

\* The present values of the appends: with 25, a ledger of investments 10
\* and 15 is worth the investments, a rate of return of 0.
IrrPresentValues == {10, 25}

\* record1.append(..) before the first call of an irr method.
IrrAppend ==
    /\ call = "new"
    /\ \E date \in LedgerDates, investment \in Investments,
          present_value \in IrrPresentValues :
           AppendConciseCall(date, investment, present_value)

IrrDirectCall(start_date, end_date, start_value, end_value, start_idx, end_idx) ==
    /\ outcome # "panic"
    /\ call = "new"
    /\ ExactDirect(record1, start_date, end_date, start_value, end_value,
                   start_idx, end_idx)
    /\ call' = "irr_direct"
    /\ args' = [start_date |-> start_date, end_date |-> end_date,
                start_value |-> start_value, end_value |-> end_value,
                start_idx |-> start_idx, end_idx |-> end_idx, x0 |-> F64(0)]
    /\ result' = Record_irr_direct(record1, start_date, end_date, start_value,
                                   end_value, start_idx, end_idx, F64(0))
    /\ UNCHANGED <<transaction, its, ret, today_ops, ncalls, record1, record2,
                   outcome>>

IrrDirect ==
    \E start_date \in LedgerDates, end_date \in LedgerDates,
       start_value \in StartValues, end_value \in EndValues,
       start_idx \in 0..Len(record1), end_idx \in 0..Len(record1) :
        IrrDirectCall(start_date, end_date, start_value, end_value,
                      start_idx, end_idx)

IrrCall(name, start_date_opt, end_date_opt, end_value_opt) ==
    LET a == Record_irr_arguments(record1, start_date_opt, end_date_opt,
                                  None, end_value_opt, None)
    IN  /\ outcome # "panic"
        /\ call = "new"
        /\ IF a.panics THEN TRUE
           ELSE ExactDirect(record1, a.val.start_date, a.val.end_date,
                            a.val.start_value, a.val.end_value,
                            a.val.start_idx, a.val.end_idx)
        /\ call' = name
        /\ args' = [start_date |-> start_date_opt, end_date |-> end_date_opt,
                    start_value |-> None, end_value |-> end_value_opt,
                    x0 |-> None]
        /\ result' = Record_irr(record1, start_date_opt, end_date_opt, None,
                                end_value_opt, None)
        /\ UNCHANGED <<transaction, its, ret, today_ops, ncalls, record1,
                       record2, outcome>>

Irr ==
    \E start_date_opt \in {None} \cup {Some(d) : d \in LedgerDates},
       end_date_opt \in {None} \cup {Some(d) : d \in LedgerDates},
       end_value_opt \in {None} \cup {Some(v) : v \in EndValues} :
        IrrCall("irr", start_date_opt, end_date_opt, end_value_opt)

IrrNaive == IrrCall("irr_naive", None, None, None)

NextIrr ==
    \/ IrrAppend
    \/ IrrDirect
    \/ Irr
    \/ IrrNaive

SpecIrr == InitIrr /\ [][NextIrr]_vars

(***************************************************************************)
(* Vocabulary of the properties.                                           *)
(***************************************************************************)
DayOpNames ==
    {"inflow", "inflow_comment", "buy", "buy_comment", "sell", "sell_comment"}

AdvanceNames == {"next_day", "next_weekday", "goto", "next_month"}

Logged == <<TRUE, FALSE>>

Recorded == <<FALSE, TRUE>>

Both == <<TRUE, TRUE>>

\* The step is an advance call that found iterator f active (and flushed it).
AdvanceFromActive(f) ==
    /\ call' \in AdvanceNames
    /\ ~is_finished(its[f])
    /\ ret'[f].val # "panic"

RECURSIVE SumSet(_, _)
SumSet(S, w) ==
    IF S = {} THEN 0
    ELSE LET e == CHOOSE x \in S : TRUE
         IN  w[e] + SumSet(S \ {e}, w)

\* The sum of w over the entries of kind `kind` of the bag ops, with
\* multiplicity; w maps an entry to a number.
Total(ops, kind, w(_)) ==
    LET S == {e \in BagToSet(ops) : e.kind = kind}
    IN  SumSet(S, [e \in S |-> ops[e] * w(e)])

EntryAmount(e) == e.amount

EntryInvestment(e) == e.investment

EntryShare(e) == e.share

HasKind(ops, kind) == \E e \in BagToSet(ops) : e.kind = kind

(***************************************************************************)
(* C1.  Logging and recording are observational: after every call the four *)
(* iterators, driven by the same calls, agree on index, cash(), share(i)   *)
(* and asset(), and on what the call returned; so the final asset() is the *)
(* same for all four flag combinations.                                    *)
(***************************************************************************)
C1_FlagsEquivalence ==
    \A f \in Flags :
        /\ its[f].index = its[Plain].index
        /\ cash(its[f]) = cash(its[Plain])
        /\ \A j \in Funds : share(its[f], j) = share(its[Plain], j)
        /\ asset(its[f]) = asset(its[Plain])
        /\ ret[f].val = ret[Plain].val

\* All four iterators have finished with a non-zero asset, the one with a
\* ledger having recorded the flushed days.
C1_Witness ==
    /\ \A f \in Flags : is_finished(its[f])
    /\ asset(its[Plain]) # 0
    /\ Len(its[Both].iter_record.val.cash_record) >= 2
    /\ its[Both].iter_log.val.cash[ndays] # 0

(***************************************************************************)
(* C2.  While the iterator is active, inflow, buy, sell and their _comment *)
(* variants leave cash(), share(i), fund_asset(i), asset(), the index, the *)
(* logs and the ledgers exactly as they were: only pending state changes.  *)
(***************************************************************************)
C2_DayOpsOnlyPending ==
    [][\A f \in Flags :
          (call' \in DayOpNames /\ ~is_finished(its[f])) =>
              /\ ret'[f].val = "Ok"
              /\ its'[f].index = its[f].index
              /\ its'[f].iter_status = its[f].iter_status
              /\ cash(its'[f]) = cash(its[f])
              /\ asset(its'[f]) = asset(its[f])
              /\ \A j \in Funds :
                     /\ share(its'[f], j) = share(its[f], j)
                     /\ fund_asset(its'[f], j) = fund_asset(its[f], j)
              /\ its'[f].iter_log = its[f].iter_log
              /\ its[f].iter_record.is_some =>
                     /\ its'[f].iter_record.val.cash_record =
                            its[f].iter_record.val.cash_record
                     /\ its'[f].iter_record.val.fund_records =
                            its[f].iter_record.val.fund_records
    ]_vars

\* A buy was accepted on a later day: it is pending, and the committed cash
\* and shares are still those of the previous flush.
C2_Witness ==
    /\ call = "buy"
    /\ its[Both].index >= 1
    /\ ~is_finished(its[Both])
    /\ its[Both].iter_buffer.cash < 0
    /\ its[Both].iter_status.cash > 0
    /\ \A j \in Funds : its[Both].iter_status.shares[j] = 0

(***************************************************************************)
(* C3.  A buy issued at day index k is committed by the next advance, with *)
(* the NAV of row k: on a day whose calls are buys and inflows, the        *)
(* advance lowers committed cash by exactly the investments (net of the    *)
(* inflows) and raises share[j] by exactly the sum of                      *)
(* (investment - fee) / NAV[k][j] over the buys of fund j; a fund that was *)
(* not bought keeps its shares.                                            *)
(***************************************************************************)
C3_BuyCommitted ==
    [][\A f \in Flags :
          (AdvanceFromActive(f) /\ ~HasKind(today_ops, "sell")) =>
              LET k == its[f].index
              IN  /\ cash(its'[f]) =
                         cash(its[f]) + Total(today_ops, "inflow", EntryAmount)
                                      - Total(today_ops, "buy", EntryInvestment)
                  /\ \A j \in Funds :
                         LET BoughtJ(e) == IF e.fundid = j
                                           THEN e.investment - e.fee ELSE 0
                         IN  (share(its'[f], j) - share(its[f], j)) * nav_at(k, j)
                                 = Total(today_ops, "buy", BoughtJ)
    ]_vars

\* Fund 1 of two was bought for 100 with fee 1 on day 0 (NAV 1) and the
\* advance went on to the end: 99 shares of fund 1, none of fund 2.
C3_Witness ==
    /\ transaction = TwoFunds
    /\ call \in AdvanceNames
    /\ its[Plain].index = 2
    /\ cash(its[Plain]) = - Units(100)
    /\ share(its[Plain], 1) = Units(99)
    /\ share(its[Plain], 2) = 0

(***************************************************************************)
(* C4.  A sell issued at day index k is committed by the next advance,     *)
(* with the NAV of row k: on a day whose calls are sells and inflows, the  *)
(* advance raises committed cash by exactly shares * NAV[k][j] - fee for   *)
(* each sell (plus the inflows) and lowers share[j] by exactly the shares  *)
(* sold of fund j; a fund that was not sold keeps its shares.              *)
(***************************************************************************)
C4_SellCommitted ==
    [][\A f \in Flags :
          (AdvanceFromActive(f) /\ ~HasKind(today_ops, "buy")) =>
              LET k == its[f].index
                  Income(e) == e.share * nav_at(k, e.fundid) - e.fee
              IN  /\ cash(its'[f]) =
                         cash(its[f]) + Total(today_ops, "inflow", EntryAmount)
                                      + Total(today_ops, "sell", Income)
                  /\ \A j \in Funds :
                         LET SoldJ(e) == IF e.fundid = j THEN e.share ELSE 0
                         IN  share(its'[f], j) =
                                 share(its[f], j) - Total(today_ops, "sell", SoldJ)
    ]_vars

\* One share of fund 2 of two was sold with fee 1 on day 1 (NAV 5): cash is
\* 5 - 1 and fund 1 is untouched.
C4_Witness ==
    /\ transaction = TwoFunds
    /\ call \in AdvanceNames
    /\ its[Plain].index = 2
    /\ cash(its[Plain]) = Units(4)
    /\ share(its[Plain], 1) = 0
    /\ share(its[Plain], 2) = - Units(1)

(***************************************************************************)
(* C5.  Each advance made while active commits the pending buffer exactly  *)
(* once: committed cash grows by the inflows minus the buy investments     *)
(* plus the sell incomes of the calls made since the previous advance, the *)
(* pending buffer is all-zero afterwards, and an advance after a day       *)
(* without calls leaves cash and shares unchanged.                         *)
(***************************************************************************)
C5_FlushOnce ==
    [][\A f \in Flags :
          AdvanceFromActive(f) =>
              LET k == its[f].index
                  Income(e) == e.share * nav_at(k, e.fundid) - e.fee
              IN  /\ cash(its'[f]) =
                         cash(its[f]) + Total(today_ops, "inflow", EntryAmount)
                                      - Total(today_ops, "buy", EntryInvestment)
                                      + Total(today_ops, "sell", Income)
                  /\ its'[f].iter_buffer = [cash |-> 0, shares |-> Zeros]
                  /\ today_ops = EmptyBag =>
                         its'[f].iter_status = its[f].iter_status
    ]_vars

\* Two calls of one day were committed together (one ledger entry carries
\* the inflow of 100 and the sell income of 99), and a later advance after a
\* day without calls left the committed cash at their sum.
C5_Witness ==
    /\ transaction = ThreeDays
    /\ call \in AdvanceNames
    /\ its[Both].index = 3
    /\ today_ops = EmptyBag
    /\ its[Both].iter_record.val.cash_record[1].investment = Units(199)
    /\ Len(its[Both].iter_record.val.cash_record) = 3
    /\ cash(its[Both]) = Units(199)
    /\ its[Both].iter_buffer = [cash |-> 0, shares |-> Zeros]

(***************************************************************************)
(* C6.  Present-asset valuation: at cursor index k > 0, asset() is cash()  *)
(* plus the sum over the funds of share(i) * NAV[k-1][i]; at index 0 it is *)
(* 0.  With single-asset NAVs 100, 101, 102, after inflow(100) and         *)
(* buy(asset0, 100, fee 0) on day 0, asset() is 100 when the cursor is on  *)
(* day 1 and 101 when it is on day 2 (no other call made).                 *)
(***************************************************************************)
\* The ledgers of the recorded iterator show that day 0 of ThreeDays was
\* flushed with an inflow of 100 and a buy of 100 with fee 0, and that no
\* call was made on a later day.
BoughtOnDay0 ==
    /\ transaction = ThreeDays
    /\ LET r == its[Recorded].iter_record.val
       IN  /\ Len(r.cash_record) >= 1
           /\ r.cash_record[1].investment = 0
           /\ r.fund_records[1][1].investment = Units(100)
           /\ r.fund_records[1][1].fee = 0
           /\ \A i \in 2..Len(r.cash_record) :
                  /\ r.cash_record[i].investment = 0
                  /\ r.fund_records[1][i].investment = 0
                  /\ r.fund_records[1][i].share = 0

C6_AssetValuation ==
    \A f \in Flags :
        /\ its[f].index = 0 => asset(its[f]) = 0
        /\ its[f].index > 0 =>
               asset(its[f]) =
                   cash(its[f])
                       + SumSeq([j \in Funds |->
                                    share(its[f], j) * nav_at(its[f].index - 1, j)])
        /\ (BoughtOnDay0 /\ its[f].index = 1) => asset(its[f]) = Units(100)
        /\ (BoughtOnDay0 /\ its[f].index = 2) => asset(its[f]) = Units(101)

\* inflow(100) and buy(asset0, 100, 0) on day 0, then two next_day calls:
\* the cursor is on day 2 and asset() is 101.
C6_Witness ==
    /\ BoughtOnDay0
    /\ call = "next_day"
    /\ its[Plain].index = 2
    /\ Len(its[Recorded].iter_record.val.cash_record) = 2
    /\ share(its[Plain], 1) = Units(1)
    /\ asset(its[Plain]) = Units(101)

(***************************************************************************)
(* C7.  Once the iterator is finished, inflow, buy, sell and their         *)
(* _comment variants return a TransactionError and leave the iterator      *)
(* (committed cash and shares, pending buffer, index, logs, ledgers)       *)
(* unchanged.                                                              *)
(***************************************************************************)
C7_FinishedRejectsDayOps ==
    [][\A f \in Flags :
          (call' \in DayOpNames /\ is_finished(its[f])) =>
              /\ ret'[f].val = "Err"
              /\ its'[f] = its[f]
    ]_vars

\* A sell with a note was refused after the iteration over a non-empty
\* calendar had ended with committed trades.
C7_Witness ==
    /\ call = "sell_comment"
    /\ ndays > 0
    /\ \A f \in Flags : is_finished(its[f]) /\ ret[f].val = "Err"
    /\ cash(its[Plain]) # 0

(***************************************************************************)
(* C8.  Finished is terminal: once index = ndays, every advance            *)
(* (next_day, next_weekday, goto, next_month, with any argument) returns   *)
(* "reached the end" and changes nothing, and no call leads from Finished  *)
(* back to Active.                                                         *)
(***************************************************************************)
C8_FinishedIsTerminal ==
    [][\A f \in Flags :
          is_finished(its[f]) =>
              /\ is_finished(its'[f])
              /\ call' \in AdvanceNames =>
                     /\ ret'[f].val = "None"
                     /\ its'[f] = its[f]
    ]_vars

(***************************************************************************)
(* C9.  next_day() on an active iterator at index k moves the cursor to    *)
(* exactly k + 1 and returns "still active" if and only if k + 1 < ndays,  *)
(* otherwise "reached the end".                                            *)
(***************************************************************************)
C9_NextDay ==
    [][\A f \in Flags :
          (call' = "next_day" /\ ~is_finished(its[f])) =>
              /\ its'[f].index = its[f].index + 1
              /\ ret'[f].val \in {"Some", "None"}
              /\ ret'[f].val = "Some" <=> its[f].index + 1 < ndays
    ]_vars

\* next_day on the last day of the three-day calendar reached the end.
C9_Witness ==
    /\ call = "next_day"
    /\ transaction = ThreeDays
    /\ \A f \in Flags : its[f].index = 3 /\ ret[f].val = "None"

(***************************************************************************)
(* C10.  As claimed: goto(date) on an active iterator moves the cursor to  *)
(* the first calendar day whose date is >= date, and to the end (returning *)
(* "finished") if date is later than the last calendar date.               *)
(***************************************************************************)
\* The index of the first calendar day at or after index `from` whose date
\* is >= date; ndays if there is none.
FirstDayFrom(from, date) ==
    LET S == {i \in from..(ndays - 1) : date_at(i) >= date}
    IN  IF S = {} THEN ndays ELSE CHOOSE i \in S : \A k \in S : i <= k

C10_GotoFirstDayOfCalendar ==
    [][\A d \in GotoDates : \A f \in Flags :
          (GotoCall(d) /\ ~is_finished(its[f])) =>
              /\ its'[f].index = FirstDayFrom(0, d)
              /\ d > date_at(ndays - 1) =>
                     its'[f].index = ndays /\ ret'[f].val = "None"
    ]_vars

(***************************************************************************)
(* C10, amended.  goto(date) on an active iterator moves the cursor to the *)
(* first calendar day at or after the current one whose date is >= date    *)
(* (it stays where it is when date is not later than today); if date is    *)
(* later than the last calendar date the cursor moves to the end and goto  *)
(* returns "finished".                                                     *)
(***************************************************************************)
C10_GotoFirstDayFromToday ==
    [][\A d \in GotoDates : \A f \in Flags :
          (GotoCall(d) /\ ~is_finished(its[f])) =>
              /\ its'[f].index = FirstDayFrom(its[f].index, d)
              /\ ret'[f].val = "None" <=> its'[f].index = ndays
              /\ d > date_at(ndays - 1) =>
                     its'[f].index = ndays /\ ret'[f].val = "None"
    ]_vars

\* goto skipped a day: from day 0 of the three-day calendar to day 2, and
\* the log repeats the committed cash of day 0 on the skipped day.
C10_Witness ==
    /\ call = "goto"
    /\ transaction = ThreeDays
    /\ its[Logged].index = 2
    /\ ret[Logged].val = "Some"
    /\ its[Logged].iter_log.val.cash[1] # 0
    /\ its[Logged].iter_log.val.cash[2] = its[Logged].iter_log.val.cash[1]
    /\ Len(its[Recorded].iter_record.val.cash_record) = 1

(***************************************************************************)
(* C11.  next_weekday(w) on an active iterator at index k moves the cursor *)
(* to the smallest index j > k whose date falls on weekday w (w defaulting *)
(* to the weekday of the current day) and returns "still active"; if there *)
(* is no such j the cursor moves to ndays and the call returns "reached    *)
(* the end".                                                               *)
(***************************************************************************)
\* The indices after k whose date falls on weekday wd.
LaterWeekdays(k, wd) == {j \in (k + 1)..(ndays - 1) : WeekdayOf(date_at(j)) = wd}

C11_NextWeekday ==
    [][\A w \in WeekdayArgs : \A f \in Flags :
          (NextWeekdayCall(w) /\ ~is_finished(its[f])) =>
              LET k  == its[f].index
                  wd == IF w.is_some THEN w.val ELSE WeekdayOf(date_at(k))
                  J  == LaterWeekdays(k, wd)
              IN  IF J = {}
                  THEN its'[f].index = ndays /\ ret'[f].val = "None"
                  ELSE /\ its'[f].index \in J
                       /\ \A j \in J : its'[f].index <= j
                       /\ ret'[f].val = "Some"
    ]_vars

\* next_weekday() without a weekday went from Friday 2023-12-01 over six
\* other days to Friday 2023-12-08 (the arguments Monday and Wednesday
\* never stop on a Friday).
C11_Witness ==
    /\ call = "next_weekday"
    /\ transaction = Dense
    /\ \A f \in Flags : its[f].index = 7 /\ ret[f].val = "Some"
    /\ WeekdayOf(date_at(7)) = 4

(***************************************************************************)
(* C12.  next_month(day) on an active iterator moves the cursor to the     *)
(* first calendar day after the current one whose date is at or after the  *)
(* target date: day-of-month `day` (defaulting to today's day-of-month) in *)
(* the month following today's month, December rolling over to January of  *)
(* the next year; if no such calendar day remains the cursor moves to the  *)
(* end.  For a day the target month does not have, the target date is the  *)
(* date next_month substitutes, the first of the target month plus         *)
(* day - 1 days.                                                           *)
(***************************************************************************)
\* The month following the month of date td, and its year.
TargetMonth(td) == IF MonthOf(td) = 12 THEN 1 ELSE MonthOf(td) + 1

TargetYear(td) == IF MonthOf(td) = 12 THEN YearOf(td) + 1 ELSE YearOf(td)

\* The target date of next_month(day_opt) called on the day td.
TargetDate(td, day_opt) ==
    LET day == IF day_opt.is_some THEN day_opt.val ELSE DayOf(td)
        y   == TargetYear(td)
        m   == TargetMonth(td)
    IN  IF day <= DaysInMonth(y, m)
        THEN Ymd(y, m, day)
        ELSE Ymd(y, m, 1) + (day - 1)

Day31Of30(f) ==
    /\ NextMonthCall(Some(31))
    /\ ~is_finished(its[f])
    /\ DaysInMonth(TargetYear(date_at(its[f].index)),
                   TargetMonth(date_at(its[f].index))) = 30

C13_TargetInsideTargetMonth ==
    [][\A f \in Flags :
          Day31Of30(f) =>
              LET td == date_at(its[f].index)
                  t  == next_month_date(its[f], Some(31)).date
              IN  /\ MonthOf(t) = TargetMonth(td)
                  /\ YearOf(t) = TargetYear(td)
    ]_vars

(***************************************************************************)
(* C13, amended.  next_month with day = 31 when the target month has only  *)
(* 30 days does not stay inside the target month: the substituted target   *)
(* date is the first of the target month plus 30 days, which is the first  *)
(* day of the month after the target month; a warning is written and the   *)
(* cursor moves to the first calendar day after the current one at or      *)
(* after that date.                                                        *)
(***************************************************************************)
C13_TargetIsFirstOfMonthAfter ==
    [][\A f \in Flags :
          Day31Of30(f) =>
              LET k  == its[f].index
                  td == date_at(k)
                  t  == next_month_date(its[f], Some(31)).date
              IN  /\ t = Ymd(TargetYear(td), TargetMonth(td), 30) + 1
                  /\ DayOf(t) = 1
                  /\ MonthOf(t) = TargetMonth(td) + 1
                  /\ "day_out_of_range" \in ret'[f].warn
                  /\ its'[f].index = FirstDayFrom(k + 1, t)
    ]_vars

\* next_month with an out-of-range day ended the iteration over the
\* three-day calendar: it was called with day 31 on 2024-03-04, the target
\* month April having 30 days (called on 2024-01-29 it stops on 2024-03-04,
\* called on 2023-12-29 the day is in range).
C13_Witness ==
    /\ call = "next_month"
    /\ transaction = ThreeDays
    /\ DaysInMonth(2024, TargetMonth(date_at(2))) = 30
    /\ \A f \in Flags :
           /\ its[f].index = 3
           /\ "day_out_of_range" \in ret[f].warn

(***************************************************************************)
(* C14.  With logging enabled, an advance from index k to index k' writes, *)
(* for every day d with k <= d < k', log cash[d] and log shares[d][i]      *)
(* equal to the committed cash and shares right after flushing day k:      *)
(* skipped days repeat the state of the last traded day.  The rows of the  *)
(* days before k are left as they were.                                    *)
(***************************************************************************)
C14_LogCarryForward ==
    [][\A f \in {Logged, Both} :
          AdvanceFromActive(f) =>
              LET k      == its[f].index
                  k2     == its'[f].index
                  log    == its'[f].iter_log.val
                  before == its[f].iter_log.val
              IN  /\ \A d \in k..(k2 - 1) :
                         /\ log.cash[d + 1] = flush_status(its[f]).cash
                         /\ log.cash[d + 1] = cash(its'[f])
                         /\ \A j \in Funds :
                                /\ log.shares[d + 1][j] = flush_status(its[f]).shares[j]
                                /\ log.shares[d + 1][j] = share(its'[f], j)
                  /\ \A d \in 0..(k - 1) :
                         /\ log.cash[d + 1] = before.cash[d + 1]
                         /\ log.shares[d + 1] = before.shares[d + 1]
    ]_vars

\* One advance went from day 0 of the three-day calendar to the end (the
\* ledger holds one entry): the three log rows all carry the cash and the
\* share committed on day 0.
C14_Witness ==
    /\ transaction = ThreeDays
    /\ call \in AdvanceNames
    /\ its[Both].index = 3
    /\ Len(its[Both].iter_record.val.cash_record) = 1
    /\ LET log == its[Both].iter_log.val
       IN  /\ log.cash[1] # 0
           /\ log.shares[1][1] # 0
           /\ \A d \in 2..3 :
                  /\ log.cash[d] = log.cash[1]
                  /\ log.shares[d] = log.shares[1]

(***************************************************************************)
(* C15.  In every reachable state dates(), navs(), cash_log(),             *)
(* share_log(i), fund_asset_log(i) and asset_log() expose exactly the rows *)
(* 0..index-1: their length is index (the log queries return nothing at    *)
(* all when logging is off), so no query exposes the date or NAV of the    *)
(* current day or of a later day.                                          *)
(***************************************************************************)
C15_QueriesStopBeforeToday ==
    \A f \in Flags :
        LET it == its[f]
        IN  /\ Len(dates(it)) = it.index
            /\ Len(navs(it)) = it.index
            /\ \A d \in 1..it.index :
                   /\ dates(it)[d] = date_at(d - 1)
                   /\ navs(it)[d] = transaction.navs[d]
                   /\ ~is_finished(it) => dates(it)[d] < today(it)
            /\ it.iter_log.is_some =>
                   /\ cash_log(it).is_some /\ Len(cash_log(it).val) = it.index
                   /\ asset_log(it).is_some /\ Len(asset_log(it).val) = it.index
                   /\ \A j \in Funds :
                          /\ share_log(it, j).is_some
                          /\ Len(share_log(it, j).val) = it.index
                          /\ fund_asset_log(it, j).is_some
                          /\ Len(fund_asset_log(it, j).val) = it.index
            /\ ~it.iter_log.is_some =>
                   /\ cash_log(it) = None
                   /\ asset_log(it) = None
                   /\ \A j \in Funds :
                          share_log(it, j) = None /\ fund_asset_log(it, j) = None

\* After inflow, buy and a goto to the third day of the three-day calendar
\* the queries show two rows, those of the first two days.
C15_Witness ==
    /\ transaction = ThreeDays
    /\ call = "goto"
    /\ its[Logged].index = 2
    /\ dates(its[Logged]) = <<Ymd(2023, 12, 29), Ymd(2024, 1, 29)>>
    /\ navs(its[Logged]) = << <<100>>, <<101>> >>
    /\ Len(cash_log(its[Logged]).val) = 2
    /\ share_log(its[Logged], 1).val = <<Units(1), Units(1)>>
    /\ asset_log(its[Logged]).val = <<Units(100), Units(101)>>

(***************************************************************************)
(* C16.  With recording enabled, a note passed to inflow_comment,          *)
(* buy_comment or sell_comment on a day appears in the comment of that     *)
(* day's ledger entry for that leg (the cash ledger for inflow, the        *)
(* asset's ledger for buy and sell), several notes of one leg joined with  *)
(* "; " in call order, and the comment buffers are empty again after the   *)
(* advance.  Stated for the note of the last call before the advance.      *)
(***************************************************************************)
\* The tokens of the comment of the last entry of a ledger.
LastComment(records) ==
    LET c == records[Len(records)].comment
    IN  {c[i] : i \in 1..Len(c)}

C16_NotesReachLedger ==
    [][\A f \in {Recorded, Both} :
          (AdvanceFromActive(f) /\ ret[f].val = "Ok") =>
              LET r == its'[f].iter_record.val
              IN  /\ call = "inflow_comment" =>
                         \E c \in Comments : c \in LastComment(r.cash_record)
                  /\ call \in {"buy_comment", "sell_comment"} =>
                         \E j \in Funds, c \in Comments :
                             c \in LastComment(r.fund_records[j])
                  /\ r.cash_comment_buffer = << >>
                  /\ \A j \in Funds : r.fund_comment_buffer[j] = << >>
    ]_vars

(***************************************************************************)
(* C17.  Ledger running totals: after any sequence of accepted appends,    *)
(* every entry i of a ledger has total_investment[i] = the sum of          *)
(* investment[j] for j <= i and profit[i] = present_value[i] -             *)
(* total_investment[i]; appending (2024-01-01, investment 10, value 10)    *)
(* and then (2024-02-01, investment 10, value 21) gives total_investment   *)
(* 20 and profit 1 for the second entry.                                   *)
(***************************************************************************)
RunningTotals(records) ==
    \A i \in 1..Len(records) :
        /\ records[i].total_investment =
               SumSeq([j \in 1..i |-> records[j].investment])
        /\ records[i].profit = records[i].present_value - records[i].total_investment

\* record1 was built by the two appends of the example.
ExampleAppends ==
    /\ Len(record1) = 2
    /\ record1[1].date = Ymd(2024, 1, 1)
    /\ record1[1].investment = 10 /\ record1[1].present_value = 10
    /\ record1[2].date = Ymd(2024, 2, 1)
    /\ record1[2].investment = 10 /\ record1[2].present_value = 21

C17_RunningTotals ==
    /\ RunningTotals(record1)
    /\ RunningTotals(record2)
    /\ ExampleAppends =>
           record1[2].total_investment = 20 /\ record1[2].profit = 1

\* The two appends of the example were made, next to a detailed ledger of
\* two entries whose investments sum to 40.
C17_Witness ==
    /\ ExampleAppends
    /\ outcome = "Ok"
    /\ record1[2].total_investment = 20
    /\ Len(record2) = 2
    /\ record2[2].total_investment = 40

(***************************************************************************)
(* C18.  Ledger ordering: an append (concise or detailed) whose date is    *)
(* earlier than the date of the ledger's last entry aborts and leaves the  *)
(* ledger's entries unchanged, while an append with an equal or later date *)
(* is accepted; so the entry dates of every reachable ledger are           *)
(* non-decreasing.                                                         *)
(***************************************************************************)
DatesOrdered(records) ==
    \A i \in 1..(Len(records) - 1) : records[i].date <= records[i + 1].date

\* The date is earlier than that of the last entry of the ledger.
Earlier(records, date) == records # << >> /\ date < records[Len(records)].date

\* The step appended one entry dated `date` to the ledger.
Accepted(before, after, date) ==
    /\ Len(after) = Len(before) + 1
    /\ SubSeq(after, 1, Len(before)) = before
    /\ after[Len(after)].date = date

C18_AppendOrdered ==
    [][/\ \A date \in LedgerDates, investment \in Investments,
             present_value \in PresentValues :
              AppendConciseCall(date, investment, present_value) =>
                  IF Earlier(record1, date)
                  THEN outcome' = "panic" /\ record1' = record1
                  ELSE outcome' = "Ok" /\ Accepted(record1, record1', date)
       /\ \A date \in LedgerDates, investment \in DetailedInvestments,
             nav \in Navs, share_ \in Shares :
              AppendDetailedCall(date, investment, nav, share_) =>
                  IF Earlier(record2, date)
                  THEN outcome' = "panic" /\ record2' = record2
                  ELSE outcome' = "Ok" /\ Accepted(record2, record2', date)
       /\ DatesOrdered(record1') /\ DatesOrdered(record2')
    ]_vars

\* An append to the detailed ledger aborted: the ledger still holds its one
\* entry, dated after 2024-01-01, and the concise ledger holds two entries
\* of the same date.
C18_Witness ==
    /\ outcome = "panic"
    /\ Len(record2) = 1
    /\ record2[1].date > Ymd(2024, 1, 1)
    /\ Len(record1) = 2
    /\ record1[1].date = record1[2].date

(***************************************************************************)
(* C19.  Merging two date-ordered ledgers yields exactly one entry per     *)
(* distinct date occurring in either input, in strictly ascending date     *)
(* order, whose investment is the sum of the investments of all input      *)
(* entries dated exactly that day; so the final total_investment of the    *)
(* merge is the sum of the final total_investments of the inputs.          *)
(***************************************************************************)
EntryDates(records) == {records[i].date : i \in 1..Len(records)}

\* The sum of the investments of the entries of `records` dated `date`.
InvestedOn(records, date) ==
    SumSeq([j \in 1..Len(records) |->
               IF records[j].date = date THEN records[j].investment ELSE 0])

FinalTotal(records) ==
    IF records = << >> THEN 0 ELSE records[Len(records)].total_investment

C19_MergeByDate ==
    LET merged == merge_records(record1, record2)
    IN  /\ EntryDates(merged) = EntryDates(record1) \cup EntryDates(record2)
        /\ \A i \in 1..(Len(merged) - 1) : merged[i].date < merged[i + 1].date
        /\ \A i \in 1..Len(merged) :
               merged[i].investment =
                   InvestedOn(record1, merged[i].date)
                       + InvestedOn(record2, merged[i].date)
        /\ FinalTotal(merged) = FinalTotal(record1) + FinalTotal(record2)

\* The concise ledger holds two entries of 2024-01-01 (10 and 15), the
\* detailed one an entry of that day and one of 2024-01-05 (20 each): the
\* merge has two entries, the first with investment 45.
C19_Witness ==
    /\ Len(record1) = 2 /\ Len(record2) = 2
    /\ record1[1].date = Ymd(2024, 1, 1) /\ record1[2].date = Ymd(2024, 1, 1)
    /\ record1[1].investment = 10 /\ record1[2].investment = 15
    /\ record2[1].date = Ymd(2024, 1, 1) /\ record2[2].date = Ymd(2024, 1, 5)
    /\ LET merged == merge_records(record1, record2)
       IN  /\ Len(merged) = 2
           /\ merged[1].investment = 45
           /\ merged[2].total_investment = 65

(***************************************************************************)
(* C20.  In a merged ledger the present value of the entry at date d is    *)
(* the sum over the two source ledgers of the present value of the         *)
(* source's last entry dated <= d (0 for a source with no entry dated      *)
(* <= d): a source without an entry on d contributes its carried-forward   *)
(* value.                                                                  *)
(***************************************************************************)
\* The present value of the last entry of `records` dated <= date, or 0.
LastValue(records, date) ==
    LET S == {j \in 1..Len(records) : records[j].date <= date}
    IN  IF S = {} THEN 0
        ELSE records[CHOOSE j \in S : \A k \in S : k <= j].present_value

C20_MergeCarriesValues ==
    LET merged == merge_records(record1, record2)
    IN  \A i \in 1..Len(merged) :
            merged[i].present_value =
                LastValue(record1, merged[i].date)
                    + LastValue(record2, merged[i].date)

\* The detailed ledger holds one entry, of 2024-01-01 and worth 20; the
\* concise one has entries on 2024-01-05 (worth 10) and 2024-02-01 (worth
\* 21).  The merged values are 20, 30 and 41.
C20_Witness ==
    /\ Len(record2) = 1
    /\ record2[1].date = Ymd(2024, 1, 1) /\ record2[1].present_value = 20
    /\ Len(record1) = 2
    /\ record1[1].date = Ymd(2024, 1, 5) /\ record1[1].present_value = 10
    /\ record1[2].date = Ymd(2024, 2, 1) /\ record1[2].present_value = 21
    /\ LET merged == merge_records(record1, record2)
       IN  /\ Len(merged) = 3
           /\ merged[1].present_value = 20
           /\ merged[2].present_value = 30
           /\ merged[3].present_value = 41

(***************************************************************************)
(* C21.  In a merge of two ledgers the entry for date d gets the comment   *)
(* tag "estimated" appended if and only if at least one of the two source  *)
(* ledgers has no entry dated exactly d; the non-empty source comments     *)
(* precede it, joined with "; " in source order (those of the first ledger *)
(* before those of the second).                                            *)
(***************************************************************************)
\* The non-empty comments of the entries of `records` dated `date`, each
\* followed by the separator.
RECURSIVE CommentsOn(_, _)
CommentsOn(records, date) ==
    IF records = << >> THEN << >>
    ELSE (IF Head(records).date = date /\ Head(records).comment # << >>
          THEN Head(records).comment \o <<"; ">> ELSE << >>)
             \o CommentsOn(Tail(records), date)

\* The comment of the merged entry of `date`: the source comments, then the
\* tag if a ledger has no entry of that date.
MergedComment(r1, r2, date) ==
    LET sources == CommentsOn(r1, date) \o CommentsOn(r2, date)
    IN  IF date \in EntryDates(r1) /\ date \in EntryDates(r2)
        THEN SubSeq(sources, 1, Len(sources) - 1)
        ELSE sources \o <<"estimated">>

C21_MergeEstimatedTag ==
    LET merged == merge_records(record1, record2)
    IN  \A i \in 1..Len(merged) :
            LET c == merged[i].comment
                d == merged[i].date
            IN  /\ c = MergedComment(record1, record2, d)
                /\ (c # << >> /\ c[Len(c)] = "estimated")
                       <=> ~(d \in EntryDates(record1) /\ d \in EntryDates(record2))

\* Both ledgers have an entry on 2024-01-01, the detailed one with a
\* comment, and only the concise one has an entry on 2024-02-01: the merged
\* comments are "note; memo" and "note; estimated".
C21_Witness ==
    /\ Len(record1) = 2 /\ Len(record2) = 1
    /\ record1[1].date = Ymd(2024, 1, 1) /\ record1[2].date = Ymd(2024, 2, 1)
    /\ record2[1].date = Ymd(2024, 1, 1) /\ record2[1].comment = <<"memo">>
    /\ LET merged == merge_records(record1, record2)
       IN  /\ merged[1].comment = <<"note", "; ", "memo">>
           /\ merged[2].comment = <<"note", "; ", "estimated">>

(***************************************************************************)
(* C22.  As claimed: merging a ledger with itself reduces every entry's    *)
(* investment to 2x the original entry's investment (and its present value *)
(* to 2x) and marks no entry "estimated".                                  *)
(***************************************************************************)
Tagged(entry) == \E k \in 1..Len(entry.comment) : entry.comment[k] = "estimated"

\* Entry i of the merge of `records` with itself doubles entry i of it.
DoubledEntrywise(records) ==
    LET merged == merge_records(records, records)
    IN  /\ Len(merged) = Len(records)
        /\ \A i \in 1..Len(merged) :
               /\ merged[i].investment = 2 * records[i].investment
               /\ merged[i].present_value = 2 * records[i].present_value
               /\ ~Tagged(merged[i])

C22_SelfMergeDoublesEntries ==
    DoubledEntrywise(record1) /\ DoubledEntrywise(record2)

(***************************************************************************)
(* C22, amended.  Merging a ledger with itself yields one entry per        *)
(* distinct date of the ledger, whose investment is 2x the sum of the      *)
(* investments of the ledger's entries of that date and whose present      *)
(* value is 2x the present value of the last of them, and marks no entry   *)
(* "estimated"; if the ledger's dates are all distinct, entry i of the     *)
(* merge doubles entry i of the ledger.                                    *)
(***************************************************************************)
DatesDistinct(records) ==
    \A i \in 1..(Len(records) - 1) : records[i].date < records[i + 1].date

DoubledByDate(records) ==
    LET merged == merge_records(records, records)
    IN  /\ EntryDates(merged) = EntryDates(records)
        /\ Len(merged) = Cardinality(EntryDates(records))
        /\ \A i \in 1..Len(merged) :
               /\ merged[i].investment = 2 * InvestedOn(records, merged[i].date)
               /\ merged[i].present_value = 2 * LastValue(records, merged[i].date)
               /\ ~Tagged(merged[i])
        /\ DatesDistinct(records) => DoubledEntrywise(records)

C22_SelfMergeDoublesDates ==
    DoubledByDate(record1) /\ DoubledByDate(record2)

\* The concise ledger holds two entries of one date, 10 worth 10 and 15
\* worth 21: merged with itself it gives one entry, 50 worth 42.
C22_Witness ==
    /\ Len(record1) = 2
    /\ record1[1].date = record1[2].date
    /\ record1[1].investment = 10 /\ record1[1].present_value = 10
    /\ record1[2].investment = 15 /\ record1[2].present_value = 21
    /\ LET merged == merge_records(record1, record1)
       IN  /\ Len(merged) = 1
           /\ merged[1].investment = 50
           /\ merged[1].present_value = 42
           /\ merged[1].comment = <<"note", "; ", "note", "; ", "note", "; ", "note">>


(***************************************************************************)
(* C23 to C30.                                                             *)
(***************************************************************************)
Searched(side) ==
    /\ call = "search_sorted"
    /\ (IF args.side.is_some THEN args.side.val ELSE LEFT) = side

\* C23: with side LEFT (the default), the index i that search_sorted
\* returns on a sorted slice is an insertion point to the left of the equal
\* keys: 0 <= i <= len, every key before i is below v (key(a[i-1]) < v when
\* i > 0) and v <= key(a[i]) when i < len -- duplicates and the empty slice
\* included.
C23_SearchLeft ==
    Searched(LEFT) =>
        LET a == args.a
            v == args.v
            i == result.val
        IN  /\ i \in 0..Len(a)
            /\ i > 0 => a[i] < v
            /\ i < Len(a) => v <= a[i + 1]

\* A slice of four equal keys searched for that key by default, and a
\* slice with duplicates searched for its last key: the first equal index.
C23_Witness ==
    /\ Searched(LEFT)
    /\ Len(args.a) = MaxLen
    /\ args.a[MaxLen] = args.v
    /\ args.a[MaxLen - 1] = args.v
    /\ args.a[1] < args.v
    /\ result.val > 0
    /\ result.val < MaxLen - 1

\* C24: with side RIGHT the returned index i is an insertion point to the
\* right of the equal keys: key(a[i-1]) <= v when i > 0 and v < key(a[i])
\* when i < len, also when v equals the last or the only key.
C24_SearchRight ==
    Searched(RIGHT) =>
        LET a == args.a
            v == args.v
            i == result.val
        IN  /\ i \in 0..Len(a)
            /\ i > 0 => a[i] <= v
            /\ i < Len(a) => v < a[i + 1]


Constructed == call = "Transaction::new"

AllSeriesNonEmpty ==
    /\ Len(args.funds) > 0
    /\ \A c \in 1..Len(args.funds) : Len(args.funds[c].data) > 0

\* start_date, or the latest of the first dates of the series.
WindowStart ==
    IF args.start_date.is_some THEN args.start_date.val
    ELSE MaxOf({args.funds[c].data[1].date : c \in 1..Len(args.funds)})

\* end_date, or the day after the earliest of the last dates of the series.
WindowEnd ==
    IF args.end_date.is_some THEN args.end_date.val
    ELSE MinOf({args.funds[c].data[Len(args.funds[c].data)].date :
                   c \in 1..Len(args.funds)}) + 1

WindowGiven ==
    \/ args.start_date.is_some /\ args.end_date.is_some
    \/ AllSeriesNonEmpty

InWindow(d) == WindowStart <= d /\ d < WindowEnd

\* The dates of series c inside [start_date, end_date), in order.
Restricted(c) == SelectSeq(fund_dates(args.funds[c]), InWindow)

Mismatched == \E c \in 1..Len(args.funds) : Restricted(c) # Restricted(1)

\* C25: Transaction::new aborts if and only if, over the window
\* [start_date, end_date), the dates of some series differ from those of the
\* first series in number or in some position; when the restricted date
\* sequences are all the same the construction succeeds.
C25_AbortsIffMismatch ==
    (Constructed /\ WindowGiven) => (result.panics <=> Mismatched)

\* C26: the calendar of a Transaction that was constructed is exactly the
\* dates d of the series with start_date <= d < end_date, in order, where
\* start_date defaults to the latest first date and end_date to the day
\* after the earliest last date; and cell [r][c] of the NAV matrix is the
\* value that series c has on calendar day r.
C26_CalendarAndNavs ==
    (Constructed /\ ~result.panics) =>
        LET t == result.val
        IN  /\ \A c \in 1..Len(args.funds) : t.date = Restricted(c)
            /\ Len(t.navs) = Len(t.date)
            /\ \A r \in 1..Len(t.date) :
                   /\ Len(t.navs[r]) = Len(args.funds)
                   /\ \A c \in 1..Len(args.funds) :
                          \E k \in 1..Len(args.funds[c].data) :
                              /\ args.funds[c].data[k].date = t.date[r]
                              /\ args.funds[c].data[k].value = t.navs[r][c]

\* Two funds of three and of two slices and no dates given: the calendar
\* is the two days they share, with the NAVs of both funds on each.
C26_Witness ==
    /\ Constructed
    /\ ~result.panics
    /\ ~args.start_date.is_some
    /\ ~args.end_date.is_some
    /\ Len(args.funds) = 2
    /\ Len(args.funds[1].data) = 3
    /\ Len(args.funds[2].data) = 2
    /\ Len(result.val.date) = 2
    /\ result.val.navs[2][2] = NavOf(2, result.val.date[2])
    /\ result.val.navs[2][1] = NavOf(1, result.val.date[2])


IrrCalled == call \in {"irr_direct", "irr", "irr_naive"}

\* What the call in `call` gave to irr_direct, if it got there.
DirectArguments ==
    IF call = "irr_direct" THEN Return(args)
    ELSE Record_irr_arguments(record1, args.start_date, args.end_date,
                              args.start_value, args.end_value, args.x0)

\* The call reached irr of utility.rs, with these days and investments.
ReachedIrr ==
    /\ IrrCalled
    /\ ~DirectArguments.panics
    /\ ~range_panics(record1, DirectArguments.val.start_idx,
                     DirectArguments.val.end_idx)

SolverDays ==
    irr_direct_days(record1, DirectArguments.val.start_date,
                    DirectArguments.val.end_date,
                    DirectArguments.val.start_idx,
                    DirectArguments.val.end_idx)

SolverInvestments ==
    irr_direct_investments(record1, DirectArguments.val.start_value,
                           DirectArguments.val.start_idx,
                           DirectArguments.val.end_idx)

\* The investments are not all zero and newton1d used up its iterations.
BudgetExhausted ==
    /\ ReachedIrr
    /\ ~all_zeros(SolverInvestments)
    /\ ~irr(SolverDays, SolverInvestments, DirectArguments.val.end_value,
            DirectArguments.val.x0).is_some

\* start_value and every investment of the range are zero.
Degenerate == ReachedIrr /\ all_zeros(SolverInvestments)

\* C27: when the root finder uses up its iterations without reaching the
\* tolerance, irr_direct, irr and irr_naive return a recoverable "no
\* solution found" result to their caller: the call never crashes.
C27_NoSolutionIsRecoverable == BudgetExhausted => ~result.panics

\* What a call whose root finding does not converge returns: irr_direct on
\* an empty range with start_date = end_date, start value 10, end value 25.
NonConvergenceOutcome ==
    Record_irr_direct(<< >>, Ymd(2024, 1, 1), Ymd(2024, 1, 1), F64(10),
                      F64(25), 0, 0, F64(0))

\* C28: an IRR call whose investments, start value included, are all zero
\* fails without root finding, with a recoverable failure that the caller
\* can tell from the failure of a root finding that did not converge.
C28_DegenerateIsDistinctFailure ==
    Degenerate => (~result.panics /\ result # NonConvergenceOutcome)


\* C29: goto with a date that is not later than the current day, on an
\* active iterator, is an advance by zero days: it writes the diagnostic
\* warning, adds the pending buffer to the committed status and clears it,
\* leaves the index where it is and returns "still active"; it is neither
\* silent nor an error.
C29_ZeroDayAdvance ==
    [][\A d \in GotoDates : \A f \in Flags :
          (GotoCall(d) /\ ~is_finished(its[f]) /\ d <= date_at(its[f].index)) =>
              /\ "same_date" \in ret'[f].warn
              /\ ret'[f].val = "Some"
              /\ its'[f].index = its[f].index
              /\ its'[f].iter_status =
                     [cash   |-> its[f].iter_status.cash + its[f].iter_buffer.cash,
                      shares |-> [j \in Funds |->
                                     its[f].iter_status.shares[j]
                                         + its[f].iter_buffer.shares[j]]]
              /\ its'[f].iter_buffer = [cash |-> 0, shares |-> Zeros]
    ]_vars

\* An inflow of day 0 was committed by a goto that stayed on day 0 with the
\* warning: the ledger has its entry of day 0 although no day has passed.
C29_Witness ==
    /\ call = "goto"
    /\ \A f \in Flags : "same_date" \in ret[f].warn /\ ret[f].val = "Some"
    /\ its[Both].index = 0
    /\ its[Both].iter_status.cash = Units(100)
    /\ its[Both].iter_buffer = [cash |-> 0, shares |-> Zeros]
    /\ Len(its[Both].iter_record.val.cash_record) = 1


\* C30: the read-only queries are valid in every reachable state, on any
\* calendar, one without days included: today() reads a date inside the
\* calendar (as cash, share, fund_asset, asset, dates and navs read inside
\* their arrays), and once the iterator is finished today() is the last
\* date of the calendar.
C30_QueriesAreValid ==
    \A f \in Flags :
        /\ ~today_panics(its[f])
        /\ its[f].index \in 0..ndays
        /\ is_finished(its[f]) => today(its[f]) = date_at(ndays - 1)


(***************************************************************************)
(* C31 to C40.                                                             *)
(***************************************************************************)
\* C31: an entry of the combined ledger record() is tagged "estimated" only
\* if the cash ledger or a fund ledger has no entry on its date; the
\* iterator appends to all of them on every flush, so no entry of record()
\* is tagged "estimated".
C31_RecordNeverEstimated ==
    \A f \in {Recorded, Both} :
        LET combined == TransactionIterator_record(its[f]).val
        IN  \A i \in 1..Len(combined) : ~Tagged(combined[i])


\* C32: in every reachable state 0 <= index <= ndays; no operation lowers
\* the index; goto with a date earlier than today cannot move the cursor
\* backwards (every goto offered in the state lands at or after the cursor).
C32_IndexBoundedMonotone ==
    [][\A f \in Flags :
          /\ 0 <= its[f].index /\ its[f].index <= ndays
          /\ its[f].index <= its'[f].index /\ its'[f].index <= ndays
          /\ \A date \in GotoDates :
                 goto(its[f], date).it.index >= its[f].index]_vars

\* goto was called with the cursor on the last day of the three-day
\* calendar and left it there, and a goto to the first calendar date from
\* this state leaves it there again.
C32_Witness ==
    /\ call = "goto"
    /\ transaction = ThreeDays
    /\ its[Plain].index = 2
    /\ "same_date" \in ret[Plain].warn
    /\ date_at(0) < today(its[Plain])
    /\ goto(its[Plain], date_at(0)).it.index = 2


\* C33: in every reachable state, index 0 after a zero-day advance that
\* committed an inflow included, asset() is cash() plus the sum of
\* fund_asset(i) over the funds.
C33_AssetIsCashPlusFundAssets ==
    \A f \in Flags :
        asset(its[f]) =
            cash(its[f]) + SumSeq([j \in Funds |-> fund_asset(its[f], j)])


\* The last element of a non-empty sequence.
Last(s) == s[Len(s)]

\* The log queries end with what the state queries return.
LogsEndWithState(it) ==
    /\ Last(cash_log(it).val) = cash(it)
    /\ Last(asset_log(it).val) = asset(it)
    /\ \A j \in Funds : Last(share_log(it, j).val) = share(it, j)

\* C34: with logging, in every reachable state with index > 0, the states
\* after zero-day advances included, the last element of cash_log() is
\* cash(), the last element of share_log(i) is share(i) and the last element
\* of asset_log() is asset().
C34_LogsEndWithState ==
    \A f \in {Logged, Both} : its[f].index > 0 => LogsEndWithState(its[f])


\* C35: with recording, after every advance made while the iterator is
\* active, the last entry of the cash ledger has present_value = cash(),
\* and the last entry of the ledger of each fund i has total_share =
\* share(i) and present_value = share(i) times the NAV of the flushed day.
C35_LedgerEndsWithState ==
    [][\A f \in {Recorded, Both} :
          AdvanceFromActive(f) =>
              LET flushed == its[f].index
                  after   == its'[f]
                  ledgers == after.iter_record.val
              IN  /\ Last(ledgers.cash_record).present_value = cash(after)
                  /\ \A j \in Funds :
                         /\ Last(ledgers.fund_records[j]).total_share =
                                share(after, j)
                         /\ Last(ledgers.fund_records[j]).present_value =
                                share(after, j) * nav_at(flushed, j)
    ]_vars

\* inflow(100) and buy(asset0, 100, 0) on day 0 of the three-day calendar,
\* then two advances of one day: the second entry of the fund ledger adds
\* no share and carries the share bought on day 0, valued at the NAV of
\* day 1.
C35_Witness ==
    /\ BoughtOnDay0
    /\ call \in AdvanceNames
    /\ its[Recorded].index = 2
    /\ LET ledgers == its[Recorded].iter_record.val
       IN  /\ Len(ledgers.cash_record) = 2
           /\ ledgers.fund_records[1][2].share = 0
           /\ ledgers.fund_records[1][2].total_share = Units(1)
           /\ ledgers.fund_records[1][2].present_value = Units(101)
           /\ ledgers.cash_record[2].present_value = 0


\* C36: with recording, buys and sells cancel in the combined ledger.  For
\* every date of record() the investment of the entry is the sum of the
\* inflows issued on the day(s) flushed at that date, and the
\* total_investment of the last entry is the sum of all committed inflows,
\* whatever was bought, sold or paid in fees.  Stated per advance: the
\* advance adds the inflows of the flushed day to the entry of its date and
\* to the final total, and changes no other entry's investment.
C36_CombinedInvestmentIsInflow ==
    [][\A f \in {Recorded, Both} :
          AdvanceFromActive(f) =>
              LET before  == TransactionIterator_record(its[f]).val
                  after   == TransactionIterator_record(its'[f]).val
                  date    == date_at(its[f].index)
                  inflows == Total(today_ops, "inflow", EntryAmount)
              IN  /\ EntryDates(after) = EntryDates(before) \cup {date}
                  /\ \A i \in 1..(Len(after) - 1) : after[i].date < after[i + 1].date
                  /\ \A i \in 1..Len(after) :
                         after[i].investment =
                             InvestedOn(before, after[i].date)
                                 + (IF after[i].date = date THEN inflows ELSE 0)
                  /\ FinalTotal(after) = FinalTotal(before) + inflows
    ]_vars

\* An inflow of 100 and a sale of one share for a fee of 1 were flushed on
\* day 0: the cash ledger books the inflow plus the net proceeds, the fund
\* ledger books the net proceeds as a negative investment, and the combined
\* entry books 100.
C36_Witness ==
    /\ call \in AdvanceNames
    /\ LET ledgers  == its[Recorded].iter_record.val
           combined == TransactionIterator_record(its[Recorded]).val
       IN  /\ Len(combined) = 1
           /\ \E j \in Funds : ledgers.fund_records[j][1].investment < 0
           /\ ledgers.cash_record[1].investment > Units(100)
           /\ combined[1].investment = Units(100)
           /\ combined[1].total_investment = Units(100)


\* The dates of the entries of a ledger, in order.
DateSeq(records) == [i \in 1..Len(records) |-> records[i].date]

\* C37: with recording, the cash ledger and the ledger of every fund have
\* the same length and the same sequence of dates.  Each gains exactly one
\* entry, dated with the current day, per advance made while the iterator
\* is active (days without calls and zero-day advances included) and none
\* once it is finished; the dates are non-decreasing, so the 'date must be
\* ordered' abort of append never triggers.
C37_LedgersInStep ==
    [][\A f \in {Recorded, Both} :
          LET ledgers == its[f].iter_record.val
              after   == its'[f].iter_record.val
              dates_  == DateSeq(ledgers.cash_record)
          IN  /\ DatesOrdered(ledgers.cash_record)
              /\ \A j \in Funds : DateSeq(ledgers.fund_records[j]) = dates_
              /\ (call' \in AdvanceNames /\ ~is_finished(its[f])) =>
                     /\ ~flush_panics(its[f])
                     /\ ret'[f].val # "panic"
                     /\ DateSeq(after.cash_record) =
                            Append(dates_, date_at(its[f].index))
                     /\ \A j \in Funds :
                            DateSeq(after.fund_records[j]) =
                                Append(dates_, date_at(its[f].index))
                     /\ DatesOrdered(after.cash_record)
              /\ ~(call' \in AdvanceNames /\ ~is_finished(its[f])) =>
                     /\ after.cash_record = ledgers.cash_record
                     /\ after.fund_records = ledgers.fund_records
    ]_vars

\* Two funds, two days, two advances, the second on a day without calls:
\* the three ledgers hold the two calendar dates, the second entries are
\* empty, and the iterator has finished.
C37_Witness ==
    /\ transaction = TwoFunds
    /\ call \in AdvanceNames
    /\ is_finished(its[Both])
    /\ LET ledgers == its[Both].iter_record.val
       IN  /\ DateSeq(ledgers.cash_record) = <<date_at(0), date_at(1)>>
           /\ \A j \in Funds :
                  /\ DateSeq(ledgers.fund_records[j]) = <<date_at(0), date_at(1)>>
                  /\ ledgers.fund_records[j][2].share = 0
                  /\ ledgers.fund_records[j][2].investment = 0
           /\ ledgers.cash_record[1].investment # 0
           /\ ledgers.cash_record[2].investment = 0


\* The advances that always move the cursor.
MovingAdvanceNames == {"next_day", "next_weekday", "next_month"}

\* Every weekday argument and every day-of-month argument.
AnyWeekday == {None} \cup {Some(w) : w \in Weekdays}

AnyDay == {None} \cup {Some(d) : d \in 1..31}

\* C38: on an active iterator next_day, next_weekday (any weekday) and
\* next_month (any day) each raise the index by at least 1 and return
\* 'reached the end' exactly when the index reaches ndays, so a loop calling
\* them until one returns 'reached the end' makes at most ndays calls; goto
\* is the only advance that can leave the index unchanged.
C38_AdvancesMove ==
    [][\A f \in Flags :
          /\ (call' \in MovingAdvanceNames /\ ~is_finished(its[f])) =>
                 /\ its'[f].index >= its[f].index + 1
                 /\ its'[f].index <= ndays
                 /\ ret'[f].val = "None" <=> its'[f].index = ndays
                 /\ ret'[f].val \in {"None", "Some"}
          /\ ~is_finished(its[f]) =>
                 /\ next_day(its[f]).it.index > its[f].index
                 /\ \A w \in AnyWeekday :
                        next_weekday(its[f], w).it.index > its[f].index
                 /\ \A d \in AnyDay :
                        next_month(its[f], d).it.index > its[f].index
          /\ (call' \in AdvanceNames /\ ~is_finished(its[f])
                 /\ its'[f].index = its[f].index) => call' = "goto"
    ]_vars

\* On the three-day calendar the second advance was a next_weekday that
\* found no later day of the weekday and went to the end, returning
\* 'reached the end'.
C38_Witness ==
    /\ transaction = ThreeDays
    /\ call = "next_weekday"
    /\ its[Plain].index = 3
    /\ ret[Plain].val = "None"
    /\ Len(its[Recorded].iter_record.val.cash_record) = 2


\* C39: with recording and after at least one advance, the present_value of
\* the last entry of record() is asset(), whatever advances were used
\* (advances that skip several days and the finishing advance included).
C39_RecordEndsWithAsset ==
    \A f \in {Recorded, Both} :
        LET combined == TransactionIterator_record(its[f]).val
        IN  combined # << >> => Last(combined).present_value = asset(its[f])


\* C39, as the code has it: after every advance made while the iterator is
\* active the present_value of the last entry of record() is cash() plus
\* the shares valued at the NAV of the flushed day, the day the entry is
\* dated with; it is asset() when the advance moved the cursor by exactly
\* one day, asset() valuing the shares at the NAV of the day before the
\* cursor.
C39_RecordEndsWithFlushedDayValue ==
    [][\A f \in {Recorded, Both} :
          AdvanceFromActive(f) =>
              LET flushed  == its[f].index
                  after    == its'[f]
                  combined == TransactionIterator_record(after).val
              IN  /\ combined # << >>
                  /\ Last(combined).date = date_at(flushed)
                  /\ Last(combined).present_value =
                         cash(after)
                             + SumSeq([j \in Funds |->
                                          share(after, j) * nav_at(flushed, j)])
                  /\ after.index = flushed + 1 =>
                         Last(combined).present_value = asset(after)
    ]_vars

\* inflow(100) and buy(asset0, 100, 0) on day 0 of the three-day calendar,
\* then one advance to the end: the only entry of record() is worth 100,
\* the share at the NAV of day 0, while asset() is 102, the share at the
\* NAV of day 2.
C39_Witness ==
    /\ BoughtOnDay0
    /\ call \in AdvanceNames
    /\ its[Recorded].index = 3
    /\ Len(TransactionIterator_record(its[Recorded]).val) = 1
    /\ Last(TransactionIterator_record(its[Recorded]).val).present_value = Units(100)
    /\ asset(its[Recorded]) = Units(102)


\* C40: irr() with every argument defaulted (irr_naive) on a non-empty
\* ledger, a ledger of one entry or one whose entries share one date
\* included, derives its start and end indices and its boundary values
\* without reading the ledger out of range.
C40_NaiveIrrStaysInRange ==
    (call = "irr_naive" /\ record1 # << >>) => ~DirectArguments.panics

====
